---- MODULE Spec2Model ----
(***************************************************************************)
(* Contract lifecycle, deposit escrow and billing of the fleet-rental      *)
(* backend.  The database tables are the state; every service method is a  *)
(* request that runs in the steps its awaits cut it into: a read of the    *)
(* rows it needs (with the checks made on that snapshot) and then its      *)
(* write, a single statement or a $transaction.                            *)
(***************************************************************************)
EXTENDS Integers, Sequences, FiniteSets, Bags, TLC

\* ------------------------------------------------------------------ bounds
MaxContracts == 2
MaxPayments == 3
MaxDeposit == 2
MaxDebt == 2
InitDeposit == 1
\* Rows of the analytics table
MaxMetricRows == 3
\* The last instant of the clock
MaxNow == 4

Procs == {1, 2}
Drivers == {1, 2}
Vehicles == {1, 2}
Companies == {1, 2}

\* ------------------------------------------------------------------- enums
ContractStatus == {"ACTIVE", "COMPLETED", "TERMINATED", "SUSPENDED"}
VehicleStatus == {"AVAILABLE", "RENTED", "MAINTENANCE", "INACTIVE"}
PaymentType == {"PAYMENT", "FINE", "BONUS", "DAILY_RENT", "DEPOSIT", "REFUND"}

\* An optional DTO field or nullable column that is absent
Nil == "nil"
\* contractId of a Payment that is linked to no contract
NoContract == 0
\* companyId of a caller or DTO that names no company
NoCompany == 0
\* endDate of a contract without one (null); instants count from 1
NoDate == 0
\* The instant of the clock when the requests begin
InitNow == 2

VARIABLES
    contracts,  \* table contracts: a sequence, the id of a row is its index
    vehicles,   \* table vehicles: id -> row
    drivers,    \* table drivers: id -> row
    payments,   \* table payments (the ledger): a bag of rows
    analytics,  \* table analytics: a sequence of rows in order of insertion
    now,        \* the clock: what new Date() returns
    reqs        \* the request each process is running, and where it is

vars == <<contracts, vehicles, drivers, payments, analytics, now, reqs>>
\* What a request that writes nothing leaves as it is
tables == <<contracts, vehicles, drivers, payments, analytics, now>>

\* ----------------------------------------------------------------- callers
SuperAdmin == [role |-> "SUPER_ADMIN", companyId |-> NoCompany]
CompanyAdmin(c) == [role |-> "COMPANY_ADMIN", companyId |-> c]
Users == {SuperAdmin} \cup {CompanyAdmin(c) : c \in Companies}

\* ------------------------------------------------------- the storage layer
\* The row a deleted contract leaves behind: ids are never reused
Deleted ==
    [driverId |-> 0, vehicleId |-> 0, companyId |-> NoCompany, dailyRate |-> 0,
     deposit |-> 0, status |-> "DELETED", startDate |-> NoDate, endDate |-> NoDate]

\* The rows a deleted vehicle and a deleted driver leave behind
DeletedVehicle == [status |-> "DELETED", companyId |-> NoCompany]
DeletedDriver ==
    [deposit |-> 0, balance |-> 0, isActive |-> FALSE, companyId |-> NoCompany]

DB == [contracts |-> contracts, vehicles |-> vehicles, drivers |-> drivers,
       payments |-> payments]

ContractExists(D, id) ==
    id \in 1..Len(D.contracts) /\ D.contracts[id].status # "DELETED"

VehicleExists(D, v) == D.vehicles[v] # DeletedVehicle
DriverExists(D, d) == D.drivers[d] # DeletedDriver

\* contracts of a driver / of a vehicle with status ACTIVE
\* (include: { contracts: { where: { status: ACTIVE } } })
ActiveOfDriver(D, d) ==
    {c \in 1..Len(D.contracts) :
        D.contracts[c].status = "ACTIVE" /\ D.contracts[c].driverId = d}

ActiveOfVehicle(D, v) ==
    {c \in 1..Len(D.contracts) :
        D.contracts[c].status = "ACTIVE" /\ D.contracts[c].vehicleId = v}

\* Payments that reference contract id
PaymentsOfContract(D, id) ==
    {r \in BagToSet(D.payments) : r.contractId = id}

\* data merged over row: the fields data names replace the row's
Merge(row, data) ==
    [f \in DOMAIN row |-> IF f \in DOMAIN data THEN data[f] ELSE row[f]]

\* A statement on a row that does not exist throws (Prisma P2025), and so
\* does the insert of a contract whose driver or vehicle does not exist, and
\* of a payment whose driver or contract does not exist (foreign keys)
StatementThrows(D, w) ==
    CASE w.stmt \in {"contract.update", "contract.delete"} -> ~ContractExists(D, w.id)
      [] w.stmt = "contract.create" ->
            \/ ~DriverExists(D, w.data.driverId)
            \/ ~VehicleExists(D, w.data.vehicleId)
      [] w.stmt \in {"vehicle.update", "vehicle.delete"} -> ~VehicleExists(D, w.id)
      [] w.stmt \in {"driver.update", "driver.increment", "driver.delete"} ->
            ~DriverExists(D, w.id)
      [] w.stmt = "payment.create" ->
            \/ ~DriverExists(D, w.data.driverId)
            \/ w.data.contractId # NoContract /\ ~ContractExists(D, w.data.contractId)
      [] OTHER -> FALSE

\* The contract row deleted; Payment.contract is onDelete: SetNull
DeleteContract(D, id) ==
    [D EXCEPT !.contracts[id] = Deleted,
              !.payments =
                  LET refs == PaymentsOfContract(D, id)
                      kept == [r \in BagToSet(D.payments) \ refs |-> D.payments[r]]
                      nulled(r) == [r EXCEPT !.contractId = NoContract]
                      moved(q) == {r \in refs : nulled(r) = q}
                  IN  [q \in DOMAIN kept \cup {nulled(r) : r \in refs} |->
                          (IF q \in DOMAIN kept THEN kept[q] ELSE 0)
                          + (IF moved(q) = {} THEN 0
                             ELSE D.payments[CHOOSE r \in moved(q) : TRUE])]]

\* Contract.vehicle and Contract.driver are onDelete: Cascade
RECURSIVE DeleteContracts(_, _)
DeleteContracts(D, ids) ==
    IF ids = {} THEN D
    ELSE LET id == CHOOSE c \in ids : TRUE
         IN  DeleteContracts(DeleteContract(D, id), ids \ {id})

ContractsOfVehicle(D, v) ==
    {c \in 1..Len(D.contracts) : ContractExists(D, c) /\ D.contracts[c].vehicleId = v}

ContractsOfDriver(D, d) ==
    {c \in 1..Len(D.contracts) : ContractExists(D, c) /\ D.contracts[c].driverId = d}

\* Payment.driver is onDelete: Cascade
DeletePaymentsOfDriver(D, d) ==
    [D EXCEPT !.payments =
        [r \in {q \in BagToSet(D.payments) : q.driverId # d} |-> D.payments[r]]]

\* One statement applied to the tables
ApplyStatement(D, w) ==
    CASE w.stmt = "contract.create" ->
            [D EXCEPT !.contracts = Append(@, w.data)]
      [] w.stmt = "contract.update" ->
            [D EXCEPT !.contracts[w.id] = Merge(@, w.data)]
      [] w.stmt = "contract.delete" -> DeleteContract(D, w.id)
      [] w.stmt = "vehicle.delete" ->
            [DeleteContracts(D, ContractsOfVehicle(D, w.id))
                EXCEPT !.vehicles[w.id] = DeletedVehicle]
      [] w.stmt = "driver.delete" ->
            [DeleteContracts(DeletePaymentsOfDriver(D, w.id), ContractsOfDriver(D, w.id))
                EXCEPT !.drivers[w.id] = DeletedDriver]
      [] w.stmt = "vehicle.update" ->
            [D EXCEPT !.vehicles[w.id] = Merge(@, w.data)]
      [] w.stmt = "driver.update" ->
            [D EXCEPT !.drivers[w.id] = Merge(@, w.data)]
      [] w.stmt = "driver.increment" ->
            \* data: { field: { increment: by } }, one atomic UPDATE
            [D EXCEPT !.drivers[w.id][w.field] = @ + w.by]
      [] w.stmt = "payment.create" ->
            [D EXCEPT !.payments = @ (+) SetToBag({w.data})]

\* The statements ws run in order from statement i; statement failAt hits a
\* storage failure (0: none does).  The tables reached and whether all ran.
RECURSIVE RunStatements(_, _, _, _)
RunStatements(D, ws, i, failAt) ==
    IF i > Len(ws) THEN [db |-> D, ok |-> TRUE]
    ELSE IF i = failAt \/ StatementThrows(D, ws[i]) THEN [db |-> D, ok |-> FALSE]
    ELSE RunStatements(ApplyStatement(D, ws[i]), ws, i + 1, failAt)

\* The same statements outside a transaction: what ran before the failure stays
NoTransaction(D, ws, failAt) == RunStatements(D, ws, 1, failAt)

\* prisma.$transaction: all the statements, or none of them
Transaction(D, ws, failAt) ==
    LET r == RunStatements(D, ws, 1, failAt)
    IN  IF r.ok THEN r ELSE [db |-> D, ok |-> FALSE]

Commit(D) ==
    /\ contracts' = D.contracts
    /\ vehicles' = D.vehicles
    /\ drivers' = D.drivers
    /\ payments' = D.payments
    /\ analytics' = analytics
    /\ now' = now

\* ---------------------------------------------------------------- requests
Idle == [op |-> "none", pc |-> "idle"]
Ok(op) == [op |-> op, pc |-> "ok"]
\* A request that threw rests with the kind of its exception
Failed(op, err) == [op |-> op, pc |-> "failed", err |-> err]
Resting(p) == reqs[p].pc \in {"idle", "ok", "failed"}

\* ------------------------------------------------- ContractService.create
\* The company the contract is created in; NoCompany: BadRequestException
TargetCompanyId(user, dtoCompanyId) ==
    IF user.role = "SUPER_ADMIN" THEN dtoCompanyId ELSE user.companyId

\* The start dates of the DTOs: one before the clock of Init, one after it
StartDates == {InitNow - 1, InitNow + 1}

\* The validation of the dates, at the instant t of its new Date()
DatesValid(dto, t) ==
    /\ ~(dto.startDate < t)
    /\ ~(dto.endDate # NoDate /\ dto.endDate <= dto.startDate)

CreateDtos(deposits, statuses) ==
    [driverId : Drivers, vehicleId : Vehicles, dailyRate : {1}, deposit : deposits,
     startDate : StartDates, endDate : {NoDate}, status : statuses,
     companyId : Companies \cup {NoCompany}]

\* The checks on the driver row without the check of its company
CreateDriverErrorAnyCompany(D, user, dto) ==
    LET target == TargetCompanyId(user, dto.companyId)
        driver == D.drivers[dto.driverId]
    IN  IF target = NoCompany THEN "BadRequest"
        ELSE IF ~DriverExists(D, dto.driverId) THEN "NotFound"
        ELSE IF ~driver.isActive THEN "BadRequest"
        ELSE IF ActiveOfDriver(D, dto.driverId) # {} THEN "Conflict"
        ELSE Nil

\* The checks on the driver row read by findUnique
CreateDriverError(D, user, dto) ==
    LET target == TargetCompanyId(user, dto.companyId)
        driver == D.drivers[dto.driverId]
    IN  IF target = NoCompany THEN "BadRequest"
        ELSE IF ~DriverExists(D, dto.driverId) THEN "NotFound"
        ELSE IF ~driver.isActive THEN "BadRequest"
        ELSE IF driver.companyId # target THEN "BadRequest"
        ELSE IF ActiveOfDriver(D, dto.driverId) # {} THEN "Conflict"
        ELSE Nil

\* create up to its second await: the role branch, the driver read and its checks
Create_ReadDriver(p, user, dto) ==
    /\ Resting(p)
    /\ reqs' = [reqs EXCEPT ![p] =
            IF CreateDriverError(DB, user, dto) # Nil
            THEN Failed("create", CreateDriverError(DB, user, dto))
            ELSE [op |-> "create", pc |-> "readVehicle", dto |-> dto,
                  targetCompanyId |-> TargetCompanyId(user, dto.companyId),
                  driverDeposit |-> IF dto.deposit # 0
                                    THEN drivers[dto.driverId].deposit ELSE 0]]
    /\ UNCHANGED tables

\* The checks on the vehicle row, the dates and the driver's deposit as read
CreateVehicleError(D, r) ==
    LET vehicle == D.vehicles[r.dto.vehicleId]
    IN  IF ~VehicleExists(D, r.dto.vehicleId) THEN "NotFound"
        ELSE IF vehicle.companyId # r.targetCompanyId THEN "BadRequest"
        ELSE IF vehicle.status # "AVAILABLE" THEN "Conflict"
        ELSE IF ActiveOfVehicle(D, r.dto.vehicleId) # {} THEN "Conflict"
        ELSE IF ~DatesValid(r.dto, now) THEN "BadRequest"
        ELSE IF r.dto.deposit # 0 /\ r.driverDeposit < r.dto.deposit THEN "BadRequest"
        ELSE Nil

Create_ReadVehicle(p) ==
    /\ reqs[p].op = "create" /\ reqs[p].pc = "readVehicle"
    /\ reqs' = [reqs EXCEPT ![p] =
            IF CreateVehicleError(DB, reqs[p]) # Nil
            THEN Failed("create", CreateVehicleError(DB, reqs[p]))
            ELSE [@ EXCEPT !.pc = "tx"]]
    /\ UNCHANGED tables

\* The hold written as an atomic decrement of the stored deposit
CreateDepositDecrement(r) ==
    [stmt |-> "driver.increment", id |-> r.dto.driverId, field |-> "deposit",
     by |-> -r.dto.deposit]

\* The driver.update of create's transaction: the deposit left after the hold
CreateDepositWrite(r) ==
    [stmt |-> "driver.update", id |-> r.dto.driverId,
     data |-> [deposit |-> r.driverDeposit - r.dto.deposit]]

\* The statements of create's transaction; newId is the id the insert returns
CreateStatements(r, newId) ==
    <<[stmt |-> "contract.create",
       data |-> [driverId |-> r.dto.driverId, vehicleId |-> r.dto.vehicleId,
                 companyId |-> r.targetCompanyId, dailyRate |-> r.dto.dailyRate,
                 deposit |-> r.dto.deposit,
                 status |-> IF r.dto.status = Nil THEN "ACTIVE" ELSE r.dto.status,
                 startDate |-> r.dto.startDate, endDate |-> r.dto.endDate]],
      [stmt |-> "vehicle.update", id |-> r.dto.vehicleId,
       data |-> [status |-> "RENTED"]]>>
    \o (IF r.dto.deposit > 0
        THEN <<CreateDepositWrite(r),
               [stmt |-> "payment.create",
                data |-> [type |-> "DEPOSIT", amount |-> r.dto.deposit,
                          driverId |-> r.dto.driverId, contractId |-> newId,
                          companyId |-> r.targetCompanyId, error |-> FALSE]]>>
        ELSE <<>>)

\* The statements of create run one by one, outside any transaction
CreateWithoutTransaction(D, r, failAt) ==
    NoTransaction(D, CreateStatements(r, Len(D.contracts) + 1), failAt)

\* prisma.$transaction of create
CreateTransaction(D, r, failAt) ==
    Transaction(D, CreateStatements(r, Len(D.contracts) + 1), failAt)

Create_Tx(p, failAt) ==
    /\ reqs[p].op = "create" /\ reqs[p].pc = "tx"
    /\ LET t == CreateTransaction(DB, reqs[p], failAt)
       IN  /\ Commit(t.db)
           /\ reqs' = [reqs EXCEPT ![p] = IF t.ok THEN Ok("create") ELSE Failed("create", "Storage")]

\* -------------------------------------------------- checkContractAccess
\* No contract is refused to anyone
ContractAccessOpen(contract, user) == FALSE

\* Callers are company users or super admins (the routes' @Roles)
ContractAccessDenied(contract, user) ==
    user.role # "SUPER_ADMIN" /\ contract.companyId # user.companyId

\* ------------------------------------------- ContractService.updateStatus
UpdateStatusError(D, id, user) ==
    IF ~ContractExists(D, id) THEN "NotFound"
    ELSE IF ContractAccessDenied(D.contracts[id], user) THEN "Forbidden"
    ELSE IF D.contracts[id].status = "COMPLETED" THEN "BadRequest"
    ELSE IF D.contracts[id].status = "TERMINATED" THEN "BadRequest"
    ELSE Nil

\* updateStatus up to its transaction: the contract read with its driver and
\* vehicle, the access check and the terminal-status checks
UpdateStatus_Read(p, user, id, status) ==
    /\ Resting(p)
    /\ reqs' = [reqs EXCEPT ![p] =
            IF UpdateStatusError(DB, id, user) # Nil
            THEN Failed("updateStatus", UpdateStatusError(DB, id, user))
            ELSE LET contract == contracts[id]
                     terminal == status \in {"COMPLETED", "TERMINATED"}
                 IN  \* of the rows read, the fields the transaction uses
                     [op |-> "updateStatus", pc |-> "tx", id |-> id, status |-> status,
                      contract |-> [driverId |-> contract.driverId,
                                    vehicleId |-> contract.vehicleId,
                                    companyId |-> contract.companyId,
                                    deposit |-> IF terminal THEN contract.deposit ELSE 0],
                      vehicleStatus |-> IF status = "SUSPENDED"
                                        THEN vehicles[contract.vehicleId].status ELSE Nil,
                      driverDeposit |-> IF terminal /\ contract.deposit > 0
                                        THEN drivers[contract.driverId].deposit ELSE 0]]
    /\ UNCHANGED tables

\* The status the transaction writes to the vehicle
UpdateStatusVehicleStatus(r) ==
    IF r.status = "ACTIVE" THEN "RENTED"
    ELSE IF r.status \in {"COMPLETED", "TERMINATED"} THEN "AVAILABLE"
    ELSE r.vehicleStatus

\* The driver.update of updateStatus's transaction: the deposit given back
UpdateStatusDepositWrite(r) ==
    [stmt |-> "driver.update", id |-> r.contract.driverId,
     data |-> [deposit |-> r.driverDeposit + r.contract.deposit]]

UpdateStatusStatements(r) ==
    <<[stmt |-> "contract.update", id |-> r.id, data |-> [status |-> r.status]],
      [stmt |-> "vehicle.update", id |-> r.contract.vehicleId,
       data |-> [status |-> UpdateStatusVehicleStatus(r)]]>>
    \o (IF r.status \in {"COMPLETED", "TERMINATED"} /\ r.contract.deposit > 0
        THEN <<UpdateStatusDepositWrite(r),
               [stmt |-> "payment.create",
                data |-> [type |-> "REFUND", amount |-> r.contract.deposit,
                          driverId |-> r.contract.driverId, contractId |-> r.id,
                          companyId |-> r.contract.companyId, error |-> FALSE]]>>
        ELSE <<>>)

UpdateStatus_Tx(p, failAt) ==
    /\ reqs[p].op = "updateStatus" /\ reqs[p].pc = "tx"
    /\ LET t == Transaction(DB, UpdateStatusStatements(reqs[p]), failAt)
       IN  /\ Commit(t.db)
           /\ reqs' = [reqs EXCEPT ![p] =
                  IF t.ok THEN Ok("updateStatus") ELSE Failed("updateStatus", "Storage")]

\* ------------------------------------------------- ContractService.update
\* UpdateContractDto: any of status, deposit, dailyRate (and dates, description)
UpdateContractDtos(statuses, deposits) ==
    {[status |-> s] : s \in statuses} \cup {[deposit |-> x] : x \in deposits}

UpdateError(D, id, user) ==
    IF ~ContractExists(D, id) THEN "NotFound"
    ELSE IF ContractAccessDenied(D.contracts[id], user) THEN "Forbidden"
    ELSE Nil

Update_Read(p, user, id, dto) ==
    /\ Resting(p)
    /\ reqs' = [reqs EXCEPT ![p] =
            IF UpdateError(DB, id, user) # Nil
            THEN Failed("update", UpdateError(DB, id, user))
            ELSE [op |-> "update", pc |-> "write", id |-> id, dto |-> dto]]
    /\ UNCHANGED tables

\* prisma.contract.update({ where: { id }, data: updateContractDto })
UpdateStatements(r) ==
    <<[stmt |-> "contract.update", id |-> r.id, data |-> r.dto]>>

Update_Write(p, failAt) ==
    /\ reqs[p].op = "update" /\ reqs[p].pc = "write"
    /\ LET t == Transaction(DB, UpdateStatements(reqs[p]), failAt)
       IN  /\ Commit(t.db)
           /\ reqs' = [reqs EXCEPT ![p] = IF t.ok THEN Ok("update") ELSE Failed("update", "Storage")]

\* ------------------------------------------------- ContractService.remove
RemoveError(D, id, user) ==
    IF ~ContractExists(D, id) THEN "NotFound"
    ELSE IF ContractAccessDenied(D.contracts[id], user) THEN "Forbidden"
    ELSE IF D.contracts[id].status = "ACTIVE" THEN "BadRequest"
    ELSE IF PaymentsOfContract(D, id) # {} THEN "BadRequest"
    ELSE Nil

Remove_Read(p, user, id) ==
    /\ Resting(p)
    /\ reqs' = [reqs EXCEPT ![p] =
            IF RemoveError(DB, id, user) # Nil
            THEN Failed("remove", RemoveError(DB, id, user))
            ELSE [op |-> "remove", pc |-> "write", id |-> id]]
    /\ UNCHANGED tables

RemoveStatements(r) == <<[stmt |-> "contract.delete", id |-> r.id]>>

Remove_Delete(p, failAt) ==
    /\ reqs[p].op = "remove" /\ reqs[p].pc = "write"
    /\ LET t == Transaction(DB, RemoveStatements(reqs[p]), failAt)
       IN  /\ Commit(t.db)
           /\ reqs' = [reqs EXCEPT ![p] = IF t.ok THEN Ok("remove") ELSE Failed("remove", "Storage")]

\* -------------------------------------------- VehicleService.updateStatus
VehicleAccessDenied(vehicle, user) ==
    user.role # "SUPER_ADMIN" /\ vehicle.companyId # user.companyId

VehicleUpdateStatusError(D, v, user, status) ==
    IF ~VehicleExists(D, v) THEN "NotFound"
    ELSE IF VehicleAccessDenied(D.vehicles[v], user) THEN "Forbidden"
    ELSE IF status = "AVAILABLE" /\ ActiveOfVehicle(D, v) # {} THEN "BadRequest"
    ELSE IF status = "RENTED" /\ ActiveOfVehicle(D, v) = {} THEN "BadRequest"
    ELSE Nil

VehicleUpdateStatus_Read(p, user, v, status) ==
    /\ Resting(p)
    /\ reqs' = [reqs EXCEPT ![p] =
            IF VehicleUpdateStatusError(DB, v, user, status) # Nil
            THEN Failed("vehicle.updateStatus", VehicleUpdateStatusError(DB, v, user, status))
            ELSE [op |-> "vehicle.updateStatus", pc |-> "write", id |-> v,
                  dto |-> [status |-> status]]]
    /\ UNCHANGED tables

\* ------------------------------------------------- VehicleService.update
\* UpdateVehicleDto: status is the one field of it the contracts depend on
VehicleUpdate_Read(p, user, v, status) ==
    /\ Resting(p)
    /\ reqs' = [reqs EXCEPT ![p] =
            IF ~VehicleExists(DB, v) THEN Failed("vehicle.update", "NotFound")
            ELSE IF VehicleAccessDenied(vehicles[v], user)
            THEN Failed("vehicle.update", "Forbidden")
            ELSE [op |-> "vehicle.update", pc |-> "write", id |-> v,
                  dto |-> [status |-> status]]]
    /\ UNCHANGED tables

VehicleStatements(r) ==
    <<[stmt |-> "vehicle.update", id |-> r.id, data |-> r.dto]>>

\* The prisma.vehicle.update of updateStatus and of update
Vehicle_Write(p, failAt) ==
    /\ reqs[p].op \in {"vehicle.updateStatus", "vehicle.update"} /\ reqs[p].pc = "write"
    /\ LET t == Transaction(DB, VehicleStatements(reqs[p]), failAt)
       IN  /\ Commit(t.db)
           /\ reqs' = [reqs EXCEPT ![p] = IF t.ok THEN Ok(@.op) ELSE Failed(@.op, "Storage")]

\* ------------------------------------------------- VehicleService.remove
VehicleRemoveError(D, v, user) ==
    IF ~VehicleExists(D, v) THEN "NotFound"
    ELSE IF VehicleAccessDenied(D.vehicles[v], user) THEN "Forbidden"
    ELSE IF ActiveOfVehicle(D, v) # {} THEN "BadRequest"
    ELSE Nil

VehicleRemove_Read(p, user, v) ==
    /\ Resting(p)
    /\ reqs' = [reqs EXCEPT ![p] =
            IF VehicleRemoveError(DB, v, user) # Nil
            THEN Failed("vehicle.remove", VehicleRemoveError(DB, v, user))
            ELSE [op |-> "vehicle.remove", pc |-> "write", id |-> v]]
    /\ UNCHANGED tables

VehicleRemoveStatements(r) == <<[stmt |-> "vehicle.delete", id |-> r.id]>>

VehicleRemove_Delete(p, failAt) ==
    /\ reqs[p].op = "vehicle.remove" /\ reqs[p].pc = "write"
    /\ LET t == Transaction(DB, VehicleRemoveStatements(reqs[p]), failAt)
       IN  /\ Commit(t.db)
           /\ reqs' = [reqs EXCEPT ![p] =
                  IF t.ok THEN Ok("vehicle.remove") ELSE Failed("vehicle.remove", "Storage")]

\* --------------------------------------------- DriverService.updateDeposit
DriverAccessDenied(driver, user) ==
    user.role # "SUPER_ADMIN" /\ driver.companyId # user.companyId

NewDepositBalance(deposit, operation, amount) ==
    IF operation = "add" THEN deposit + amount ELSE deposit - amount

UpdateDepositError(D, d, user, operation, amount) ==
    IF ~DriverExists(D, d) THEN "NotFound"
    ELSE IF DriverAccessDenied(D.drivers[d], user) THEN "Forbidden"
    ELSE IF operation # "add" /\ NewDepositBalance(D.drivers[d].deposit, operation, amount) < 0
        THEN "BadRequest"
    ELSE Nil

UpdateDeposit_Read(p, user, d, operation, amount) ==
    /\ Resting(p)
    /\ reqs' = [reqs EXCEPT ![p] =
            IF UpdateDepositError(DB, d, user, operation, amount) # Nil
            THEN Failed("updateDeposit", UpdateDepositError(DB, d, user, operation, amount))
            ELSE [op |-> "updateDeposit", pc |-> "tx", id |-> d,
                  operation |-> operation, amount |-> amount,
                  companyId |-> drivers[d].companyId,
                  newDepositBalance |->
                      NewDepositBalance(drivers[d].deposit, operation, amount)]]
    /\ UNCHANGED tables

UpdateDepositStatements(r) ==
    <<[stmt |-> "driver.update", id |-> r.id,
       data |-> [deposit |-> r.newDepositBalance]],
      [stmt |-> "payment.create",
       data |-> [type |-> IF r.operation = "add" THEN "PAYMENT" ELSE "FINE",
                 amount |-> r.amount, driverId |-> r.id, contractId |-> NoContract,
                 companyId |-> r.companyId, error |-> FALSE]]>>

UpdateDeposit_Tx(p, failAt) ==
    /\ reqs[p].op = "updateDeposit" /\ reqs[p].pc = "tx"
    /\ LET t == Transaction(DB, UpdateDepositStatements(reqs[p]), failAt)
       IN  /\ Commit(t.db)
           /\ reqs' = [reqs EXCEPT ![p] =
                  IF t.ok THEN Ok("updateDeposit") ELSE Failed("updateDeposit", "Storage")]

\* --------------------------------------------------- DriverService.update
\* The fields of UpdateDriverDto that the model keeps: isActive and balance
UpdateDriverDtos(balances) ==
    {[isActive |-> b] : b \in BOOLEAN} \cup {[balance |-> x] : x \in balances}

\* update up to its second await: the driver read and the access check
DriverUpdate_Read(p, user, d, dto) ==
    /\ Resting(p)
    /\ reqs' = [reqs EXCEPT ![p] =
            IF ~DriverExists(DB, d) THEN Failed("driver.update", "NotFound")
            ELSE IF DriverAccessDenied(drivers[d], user)
            THEN Failed("driver.update", "Forbidden")
            ELSE [op |-> "driver.update", pc |-> "write", id |-> d, dto |-> dto]]
    /\ UNCHANGED tables

\* data: updateDriverDto
DriverUpdateStatements(r) ==
    <<[stmt |-> "driver.update", id |-> r.id, data |-> r.dto]>>

DriverUpdate_Write(p, failAt) ==
    /\ reqs[p].op = "driver.update" /\ reqs[p].pc = "write"
    /\ LET t == Transaction(DB, DriverUpdateStatements(reqs[p]), failAt)
       IN  /\ Commit(t.db)
           /\ reqs' = [reqs EXCEPT ![p] =
                  IF t.ok THEN Ok("driver.update")
                  ELSE Failed("driver.update", "Storage")]

\* --------------------------------------------------- DriverService.remove
\* remove up to its second await: the driver read and the access check
DriverRemove_Read(p, user, d) ==
    /\ Resting(p)
    /\ reqs' = [reqs EXCEPT ![p] =
            IF ~DriverExists(DB, d) THEN Failed("driver.remove", "NotFound")
            ELSE IF DriverAccessDenied(drivers[d], user)
            THEN Failed("driver.remove", "Forbidden")
            ELSE [op |-> "driver.remove", pc |-> "count", id |-> d]]
    /\ UNCHANGED tables

\* The count of the driver's ACTIVE contracts and its check
DriverRemove_Count(p) ==
    /\ reqs[p].op = "driver.remove" /\ reqs[p].pc = "count"
    /\ reqs' = [reqs EXCEPT ![p] =
            IF ActiveOfDriver(DB, reqs[p].id) # {}
            THEN Failed("driver.remove", "BadRequest")
            ELSE [@ EXCEPT !.pc = "write"]]
    /\ UNCHANGED tables

DriverRemoveStatements(r) == <<[stmt |-> "driver.delete", id |-> r.id]>>

DriverRemove_Delete(p, failAt) ==
    /\ reqs[p].op = "driver.remove" /\ reqs[p].pc = "write"
    /\ LET t == Transaction(DB, DriverRemoveStatements(reqs[p]), failAt)
       IN  /\ Commit(t.db)
           /\ reqs' = [reqs EXCEPT ![p] =
                  IF t.ok THEN Ok("driver.remove") ELSE Failed("driver.remove", "Storage")]

\* --------------------------------------------- DriverService.updateBalance
\* FINE and DAILY_RENT are taken from the balance, the other types added
BalanceChange(type, amount) ==
    IF type \in {"FINE", "DAILY_RENT"} THEN -amount ELSE amount

UpdateBalance_Read(p, user, d, type, amount) ==
    /\ Resting(p)
    /\ reqs' = [reqs EXCEPT ![p] =
            IF ~DriverExists(DB, d) THEN Failed("updateBalance", "NotFound")
            ELSE IF DriverAccessDenied(drivers[d], user)
            THEN Failed("updateBalance", "Forbidden")
            ELSE [op |-> "updateBalance", pc |-> "tx", id |-> d, type |-> type,
                  amount |-> amount, companyId |-> drivers[d].companyId,
                  newBalance |-> drivers[d].balance + BalanceChange(type, amount)]]
    /\ UNCHANGED tables

\* The driver.update of updateBalance's transaction
UpdateBalanceWrite(r) ==
    [stmt |-> "driver.update", id |-> r.id, data |-> [balance |-> r.newBalance]]

UpdateBalanceStatements(r) ==
    <<UpdateBalanceWrite(r),
      [stmt |-> "payment.create",
       data |-> [type |-> r.type, amount |-> r.amount, driverId |-> r.id,
                 contractId |-> NoContract, companyId |-> r.companyId,
                 error |-> FALSE]]>>

UpdateBalance_Tx(p, failAt) ==
    /\ reqs[p].op = "updateBalance" /\ reqs[p].pc = "tx"
    /\ LET t == Transaction(DB, UpdateBalanceStatements(reqs[p]), failAt)
       IN  /\ Commit(t.db)
           /\ reqs' = [reqs EXCEPT ![p] =
                  IF t.ok THEN Ok("updateBalance") ELSE Failed("updateBalance", "Storage")]

\* ---------------------------------------------------------- BillingService
\* The scheduler, which starts the daily run, as a caller
Cron == [role |-> "CRON", companyId |-> NoCompany]

\* What processAllActiveContracts selects of the ACTIVE contracts
ActiveContracts(D) ==
    {[id |-> c, dailyRate |-> D.contracts[c].dailyRate,
      driverId |-> D.contracts[c].driverId, companyId |-> D.contracts[c].companyId,
      balance |-> D.drivers[D.contracts[c].driverId].balance] :
        c \in {c \in 1..Len(D.contracts) :
                 /\ D.contracts[c].status = "ACTIVE"
                 /\ \/ D.contracts[c].endDate = NoDate
                    \/ D.contracts[c].endDate >= now}}

\* processDailyRentals up to the loop: the findMany of the ACTIVE contracts.
\* user started the run (the scheduler, or the caller of the manual trigger);
\* nothing of the run depends on it
Billing_Fetch(p, user, fails) ==
    /\ Resting(p)
    /\ reqs' = [reqs EXCEPT ![p] =
            IF fails THEN Failed("billing", "Storage")
            ELSE [op |-> "billing", pc |-> "loop", trigger |-> user,
                  todo |-> ActiveContracts(DB),
                  fetched |-> Cardinality(ActiveContracts(DB)),
                  stats |-> [total |-> 0, successful |-> 0, failed |-> 0,
                             totalAmount |-> 0],
                  failedEvents |-> 0]]
    /\ UNCHANGED tables

\* The debit written from the balance read by the findMany
ProcessContractPaymentStale(contract) ==
    <<[stmt |-> "driver.update", id |-> contract.driverId,
       data |-> [balance |-> contract.balance - contract.dailyRate]],
      [stmt |-> "payment.create",
       data |-> [type |-> "DAILY_RENT", amount |-> contract.dailyRate,
                 driverId |-> contract.driverId, contractId |-> contract.id,
                 companyId |-> contract.companyId, error |-> FALSE]]>>

\* processContractPayment: the debit and its ledger entry
ProcessContractPayment(contract) ==
    <<[stmt |-> "driver.increment", id |-> contract.driverId, field |-> "balance",
       by |-> -contract.dailyRate],
      [stmt |-> "payment.create",
       data |-> [type |-> "DAILY_RENT", amount |-> contract.dailyRate,
                 driverId |-> contract.driverId, contractId |-> contract.id,
                 companyId |-> contract.companyId, error |-> FALSE]]>>

\* The debit and its ledger entry run one by one, outside any transaction
ChargeWithoutTransaction(D, contract, failAt) ==
    NoTransaction(D, ProcessContractPayment(contract), failAt)

\* prisma.$transaction of processContractPayment
ChargeTransaction(D, contract, failAt) ==
    Transaction(D, ProcessContractPayment(contract), failAt)

\* createFailedPaymentRecord: the error-tagged entry, outside any transaction;
\* its own failure is logged and swallowed
CreateFailedPaymentRecord(D, contract, recordFails) ==
    IF recordFails \/ ~ContractExists(D, contract.id) THEN D
    ELSE ApplyStatement(D,
            [stmt |-> "payment.create",
             data |-> [type |-> "DAILY_RENT", amount |-> contract.dailyRate,
                       driverId |-> contract.driverId, contractId |-> contract.id,
                       companyId |-> contract.companyId, error |-> TRUE]])

\* The fetched contracts the loop of request p has still to charge
Todo(p) ==
    IF reqs[p].op = "billing" /\ reqs[p].pc = "loop" THEN reqs[p].todo ELSE {}

\* The run r after the try block of the loop ran through for contract
ChargeSucceeded(r, contract) ==
    [r EXCEPT !.todo = @ \ {contract},
              !.stats = [total |-> @.total + 1, successful |-> @.successful + 1,
                         failed |-> @.failed,
                         totalAmount |-> @.totalAmount + contract.dailyRate]]

\* A failed charge ends the run
ChargeFailedAborts(r, contract) == Failed("billing", "Storage")

\* The run r after the catch block of the loop: the failure is counted, the
\* event billing.payment.failed emitted, and the loop goes on
ChargeFailed(r, contract) ==
    [r EXCEPT !.todo = @ \ {contract},
              !.stats = [total |-> @.total + 1, successful |-> @.successful,
                         failed |-> @.failed + 1, totalAmount |-> @.totalAmount],
              !.failedEvents = @ + 1]

\* One turn of the loop, for one of the fetched contracts
Billing_Charge(p, contract, failAt, recordFails) ==
    /\ contract \in Todo(p)
    /\ LET t == ChargeTransaction(DB, contract, failAt)
       IN  /\ Commit(IF t.ok THEN t.db
                     ELSE CreateFailedPaymentRecord(t.db, contract, recordFails))
           /\ reqs' = [reqs EXCEPT ![p] =
                  IF t.ok THEN ChargeSucceeded(@, contract)
                  ELSE ChargeFailed(@, contract)]

\* The run ends without its billing.daily.completed event
CompletedWithoutEvent(r) ==
    [op |-> "billing", pc |-> "ok", trigger |-> r.trigger, fetched |-> r.fetched,
     stats |-> r.stats, failedEvents |-> r.failedEvents, completedEvents |-> <<>>]

\* The stats processDailyRentals returns, with what the run fetched and
\* emitted; completedEvents are its billing.daily.completed events, each by
\* the stats it carries
Completed(r) ==
    [op |-> "billing", pc |-> "ok", trigger |-> r.trigger, fetched |-> r.fetched,
     stats |-> r.stats, failedEvents |-> r.failedEvents,
     completedEvents |-> <<r.stats>>]

\* After the loop: billing.daily.completed is emitted and the stats returned
Billing_Complete(p) ==
    /\ reqs[p].op = "billing" /\ reqs[p].pc = "loop"
    /\ reqs[p].todo = {}
    /\ reqs' = [reqs EXCEPT ![p] = Completed(@)]
    /\ UNCHANGED tables

\* ------------------------------------------------------------ CompanyFilter
\* The companyId the decorator hands to the handler: the query's for a super
\* admin that names one, else the caller's own
CompanyFilter(user, queryCompanyId) ==
    IF user.role = "SUPER_ADMIN" /\ queryCompanyId # NoCompany THEN queryCompanyId
    ELSE user.companyId

\* ------------------------------------------ BillingService.getDriversInDebt
\* The where clause of the driver.findMany
DebtWhere(D, d, companyId) ==
    /\ DriverExists(D, d)
    /\ D.drivers[d].balance < 0
    /\ ActiveOfDriver(D, d) # {}
    /\ D.drivers[d].isActive
    /\ companyId # NoCompany => D.drivers[d].companyId = companyId

\* ------------------------------------------ Decimal.toNumber and doubles
\* An amount of the tables is a Decimal(10, 2), held as its number of
\* hundredths. toNumber() makes it a JavaScript number, an IEEE 754 double:
\* m * 2^e with a mantissa m of MantissaBits bits, or zero. The integers of
\* the arithmetic on mantissas are four limbs of 24 bits, the lowest first.
LimbBase == 16777216
BigZero == <<0, 0, 0, 0>>
Big(n) == <<n % LimbBase, n \div LimbBase, 0, 0>>
BigToInt(a) == a[1] + LimbBase * a[2]

Twice(a) ==
    LET d1 == 2 * a[1]
        d2 == 2 * a[2] + d1 \div LimbBase
        d3 == 2 * a[3] + d2 \div LimbBase
        d4 == 2 * a[4] + d3 \div LimbBase
    IN  <<d1 % LimbBase, d2 % LimbBase, d3 % LimbBase, d4>>

Less(a, b) ==
    \/ a[4] < b[4]
    \/ a[4] = b[4] /\ a[3] < b[3]
    \/ a[4] = b[4] /\ a[3] = b[3] /\ a[2] < b[2]
    \/ a[4] = b[4] /\ a[3] = b[3] /\ a[2] = b[2] /\ a[1] < b[1]

Plus(a, b) ==
    LET s1 == a[1] + b[1]
        s2 == a[2] + b[2] + s1 \div LimbBase
        s3 == a[3] + b[3] + s2 \div LimbBase
        s4 == a[4] + b[4] + s3 \div LimbBase
    IN  <<s1 % LimbBase, s2 % LimbBase, s3 % LimbBase, s4>>

\* a - b for a >= b
Minus(a, b) ==
    LET d1 == a[1] - b[1]
        d2 == a[2] - b[2] - (IF d1 < 0 THEN 1 ELSE 0)
        d3 == a[3] - b[3] - (IF d2 < 0 THEN 1 ELSE 0)
        d4 == a[4] - b[4] - (IF d3 < 0 THEN 1 ELSE 0)
    IN  <<d1 % LimbBase, d2 % LimbBase, d3 % LimbBase, d4>>

RECURSIVE ShiftLeft(_, _)
ShiftLeft(a, k) == IF k = 0 \/ a = BigZero THEN a ELSE ShiftLeft(Twice(a), k - 1)

MantissaBits == 53
\* 2^52, the least mantissa of a double
MinMantissa == <<0, 0, 2 ^ (MantissaBits - 1 - 48), 0>>
DoubleZero == [neg |-> FALSE, m |-> BigZero, e |-> 0]

\* One more bit of the quotient: s.q the bits so far, s.rem what is left
QuotientBit(s, den) ==
    LET r2 == Twice(s.rem)
    IN  IF Less(r2, den) THEN [q |-> Twice(s.q), rem |-> r2]
        ELSE [q |-> Plus(Twice(s.q), Big(1)), rem |-> Minus(r2, den)]

\* The bits of the quotient, four at a time, until they fill the mantissa:
\* s.q begins with one bit, and the other MantissaBits - 1 are a multiple of 4
RECURSIVE QuotientBits(_, _)
QuotientBits(s, den) ==
    IF ~Less(s.q, MinMantissa) THEN s
    ELSE QuotientBits(
            QuotientBit(QuotientBit(QuotientBit(QuotientBit(s, den), den), den), den),
            den)

\* Round to nearest, ties to even
RoundNearestEven(neg, q, rem, den, e) ==
    LET r2 == Twice(rem)
        up == Less(den, r2) \/ (r2 = den /\ q[1] % 2 = 1)
        m == IF up THEN Plus(q, Big(1)) ELSE q
    IN  IF m = Twice(MinMantissa) THEN [neg |-> neg, m |-> MinMantissa, e |-> e + 1]
        ELSE [neg |-> neg, m |-> m, e |-> e]

\* The double nearest to (num / den) * 2^e, for num > 0 and den > 0
RECURSIVE ToDouble(_, _, _, _)
ToDouble(neg, num, den, e) ==
    IF Less(num, den) THEN ToDouble(neg, Twice(num), den, e - 1)
    ELSE IF ~Less(num, Twice(den)) THEN ToDouble(neg, num, Twice(den), e + 1)
    ELSE LET b == QuotientBits([q |-> Big(1), rem |-> Minus(num, den)], den)
         IN  RoundNearestEven(neg, b.q, b.rem, den, e - (MantissaBits - 1))

Abs(x) == IF x < 0 THEN -x ELSE x

\* Decimal.toNumber() of an amount
ToNumber(hundredths) ==
    IF hundredths = 0 THEN DoubleZero
    ELSE ToDouble(hundredths < 0, Big(Abs(hundredths)), Big(100), 0)

\* Math.abs
MathAbs(x) == [x EXCEPT !.neg = FALSE]

\* x / y for x and y that are not zero
DoubleDiv(x, y) == ToDouble(x.neg # y.neg, x.m, y.m, x.e - y.e)

\* x + y for x and y that are not negative
DoubleAdd(x, y) ==
    IF x = DoubleZero THEN y
    ELSE IF y = DoubleZero THEN x
    ELSE LET e == IF x.e < y.e THEN x.e ELSE y.e
         IN  ToDouble(FALSE, Plus(ShiftLeft(x.m, x.e - e), ShiftLeft(y.m, y.e - e)),
                      MinMantissa, e + (MantissaBits - 1))

\* x < y
DoubleLess(x, y) ==
    LET below(a, b) == IF a.m = BigZero THEN b.m # BigZero
                       ELSE b.m # BigZero /\ (a.e < b.e \/ (a.e = b.e /\ Less(a.m, b.m)))
    IN  IF x.neg # y.neg THEN x.neg
        ELSE IF x.neg THEN below(y, x) ELSE below(x, y)

\* The least integer that is not below m / 2^k, for k > 0 and m below 2^72:
\* m without its k low bits, and one more if any of them is set
CeilShift(m, k) ==
    LET limbs == k \div 24
        p == 2 ^ (k % 24)
        limb(i) == IF i + limbs <= 4 THEN m[i + limbs] ELSE 0
        shifted(i) == limb(i) \div p + (limb(i + 1) % p) * (LimbBase \div p)
        sticky == limb(1) % p # 0 \/ \E i \in 1..4 : i <= limbs /\ m[i] # 0
    IN  shifted(1) + LimbBase * shifted(2) + (IF sticky THEN 1 ELSE 0)

\* Math.ceil of a double that is not negative and is below 2^24
MathCeil(x) ==
    IF x.e >= 0 THEN BigToInt(ShiftLeft(x.m, x.e)) ELSE CeilShift(x.m, -x.e)

\* driver.contracts.reduce((sum, contract) => sum + contract.dailyRate, 0),
\* the contracts taken in the order of their ids
RECURSIVE TotalDailyRate(_, _)
TotalDailyRate(D, ids) ==
    IF ids = {} THEN DoubleZero
    ELSE LET id == CHOOSE c \in ids : \A other \in ids : other <= c
         IN  DoubleAdd(TotalDailyRate(D, ids \ {id}), ToNumber(D.contracts[id].dailyRate))

\* totalDailyRate > 0 ? Math.ceil(debtAmount / totalDailyRate) : 0
DaysInDebt(debtAmount, totalDailyRate) ==
    IF totalDailyRate = DoubleZero THEN 0
    ELSE IF debtAmount = DoubleZero THEN 0
    ELSE MathCeil(DoubleDiv(debtAmount, totalDailyRate))

\* The object the map builds of one driver
DebtRow(D, d) ==
    LET totalDailyRate == TotalDailyRate(D, ActiveOfDriver(D, d))
        debtAmount == MathAbs(ToNumber(D.drivers[d].balance))
    IN  [driverId |-> d, balance |-> ToNumber(D.drivers[d].balance),
         debtAmount |-> debtAmount, dailyRate |-> totalDailyRate,
         daysInDebt |-> DaysInDebt(debtAmount, totalDailyRate),
         contracts |-> ActiveOfDriver(D, d)]

\* Array.prototype.sort((a, b) => a.balance - b.balance): a stable sort, here
\* by insertion; the difference of two doubles is above zero when the first
\* is the greater
RECURSIVE InsertByBalance(_, _)
InsertByBalance(sorted, row) ==
    IF sorted = <<>> THEN <<row>>
    ELSE LET last == sorted[Len(sorted)]
         IN  IF DoubleLess(row.balance, last.balance)
             THEN Append(InsertByBalance(SubSeq(sorted, 1, Len(sorted) - 1), row), last)
             ELSE Append(sorted, row)

RECURSIVE SortByBalance(_)
SortByBalance(rows) ==
    IF rows = <<>> THEN <<>>
    ELSE InsertByBalance(SortByBalance(SubSeq(rows, 1, Len(rows) - 1)), rows[Len(rows)])

\* The orders in which findMany, that has no orderBy, may return the drivers
FindManyOrders(found) ==
    {order \in [1..Cardinality(found) -> found] :
        \A i, j \in DOMAIN order : i # j => order[i] # order[j]}

\* The mapped rows as findMany returned them
DriversInDebtUnsorted(D, order) == [i \in DOMAIN order |-> DebtRow(D, order[i])]

DriversInDebt(D, order) ==
    SortByBalance([i \in DOMAIN order |-> DebtRow(D, order[i])])

\* getDriversInDebt: one awaited findMany, then map and sort
GetDriversInDebt(p, user, queryCompanyId) ==
    /\ Resting(p)
    /\ LET companyId == CompanyFilter(user, queryCompanyId)
           found == {d \in Drivers : DebtWhere(DB, d, companyId)}
       IN  \E order \in FindManyOrders(found) :
              reqs' = [reqs EXCEPT ![p] =
                  [op |-> "getDriversInDebt", pc |-> "ok", companyId |-> companyId,
                   result |-> DriversInDebt(DB, order)]]
    /\ UNCHANGED tables

\* ------------------------------------- BillingService.getTodayBillingStats
\* The rows the where clause selects: DAILY_RENT, of the company if one is
\* given (every entry of the ledger is of the day of the question)
TodayWhere(D, companyId) ==
    {r \in BagToSet(D.payments) :
        /\ r.type = "DAILY_RENT"
        /\ companyId # NoCompany => r.companyId = companyId}

\* payment.findMany, and the filters on the description of its rows
TodayPayments(D, companyId) ==
    LET rows == TodayWhere(D, companyId)
        count(S) == BagCardinality([r \in S |-> D.payments[r]])
    IN  [total |-> count(rows),
         successful |-> count({r \in rows : ~r.error}),
         failed |-> count({r \in rows : r.error})]

\* payment.aggregate _sum.amount, 0 when there is no row
RECURSIVE SumOfAmounts(_, _)
SumOfAmounts(D, rows) ==
    IF rows = {} THEN 0
    ELSE LET r == CHOOSE row \in rows : TRUE
         IN  D.payments[r] * r.amount + SumOfAmounts(D, rows \ {r})

TodayTotalAmount(D, companyId) == SumOfAmounts(D, TodayWhere(D, companyId))

\* The first of the two queries of the Promise.all to be answered
TodayStats_First(p, user, queryCompanyId, first) ==
    /\ Resting(p)
    /\ LET companyId == CompanyFilter(user, queryCompanyId)
       IN  reqs' = [reqs EXCEPT ![p] =
              [op |-> "getTodayBillingStats", pc |-> "second", companyId |-> companyId,
               first |-> first,
               read |-> IF first = "findMany" THEN TodayPayments(DB, companyId)
                        ELSE [totalAmount |-> TodayTotalAmount(DB, companyId)]]]
    /\ UNCHANGED tables

\* The second query is answered and the stats are returned
TodayStats_Second(p) ==
    /\ reqs[p].op = "getTodayBillingStats" /\ reqs[p].pc = "second"
    /\ LET r == reqs[p]
           payments_ == IF r.first = "findMany" THEN r.read
                        ELSE TodayPayments(DB, r.companyId)
           totalAmount == IF r.first = "findMany" THEN TodayTotalAmount(DB, r.companyId)
                          ELSE r.read.totalAmount
       IN  reqs' = [reqs EXCEPT ![p] =
              [op |-> "getTodayBillingStats", pc |-> "ok", companyId |-> r.companyId,
               result |-> [total |-> payments_.total,
                           successful |-> payments_.successful,
                           failed |-> payments_.failed,
                           totalAmount |-> totalAmount]]]
    /\ UNCHANGED tables

Init ==
    /\ contracts = <<>>
    /\ vehicles = [v \in Vehicles |-> [status |-> "AVAILABLE", companyId |-> 1]]
    /\ drivers = [d \in Drivers |->
                    [deposit |-> InitDeposit, balance |-> 0, isActive |-> TRUE,
                     companyId |-> 1]]
    /\ payments = EmptyBag
    /\ reqs = [p \in Procs |-> Idle]
    /\ analytics = <<>>
    /\ now = InitNow

\* ------------------------------------------------------------ specifications
\* Statement of a write at which a storage failure may hit (0: nowhere)
FailPoints == 0..4

Terminal == {"COMPLETED", "TERMINATED"}

\* A company admin's create: the DTO's companyId is not read
AdminCreateDtos(ds, vs, deposits, statuses) ==
    {dto \in CreateDtos(deposits, statuses) :
        dto.companyId = NoCompany /\ dto.driverId \in ds /\ dto.vehicleId \in vs}

\* The creates under way
Creating == {q \in Procs : reqs[q].op = "create" /\ ~Resting(q)}

\* The caps of the model: a create starts only while a contract id is left,
\* and a write commits only within the ledger's and the deposits' bounds
MayCreate(maxContracts) == Len(contracts) + Cardinality(Creating) < maxContracts

Within(maxPayments, maxDeposit) ==
    /\ BagCardinality(payments) <= maxPayments
    /\ \A d \in Drivers : drivers[d].deposit <= maxDeposit

\* Contracts and deposits under concurrency: two requests at a time, each a
\* create holding a deposit of 1, an updateStatus or an updateDeposit, all
\* for driver 1 and vehicle 1
Next ==
    \E p \in Procs :
        \/ /\ MayCreate(MaxContracts)
           /\ \E dto \in AdminCreateDtos({1}, {1}, {1}, {Nil}) :
                 Create_ReadDriver(p, CompanyAdmin(1), dto)
        \/ Create_ReadVehicle(p)
        \/ \E failAt \in FailPoints :
              Create_Tx(p, failAt) /\ Within(MaxPayments, MaxDeposit)'
        \/ \E id \in 1..MaxContracts, status \in ContractStatus :
              UpdateStatus_Read(p, CompanyAdmin(1), id, status)
        \/ \E failAt \in FailPoints :
              UpdateStatus_Tx(p, failAt) /\ Within(MaxPayments, MaxDeposit)'
        \/ \E operation \in {"add", "subtract"} :
              UpdateDeposit_Read(p, CompanyAdmin(1), 1, operation, 1)
        \/ \E failAt \in FailPoints :
              UpdateDeposit_Tx(p, failAt) /\ Within(MaxPayments, MaxDeposit)'

Spec == Init /\ [][Next]_vars

\* The contract and vehicle operations one request at a time: every operation
\* of ContractService and the status writes of VehicleService, by the admin
\* of either company, for driver 1 and contracts that hold no deposit
LifecycleUsers == {CompanyAdmin(1), CompanyAdmin(2)}

NextLifecycle ==
    \E p \in {1} :
        \/ /\ MayCreate(MaxContracts)
           /\ \E user \in LifecycleUsers,
                 dto \in AdminCreateDtos({1}, Vehicles, {0}, {Nil}) :
                 Create_ReadDriver(p, user, dto)
        \/ Create_ReadVehicle(p)
        \/ \E failAt \in FailPoints :
              Create_Tx(p, failAt) /\ Within(MaxPayments, MaxDeposit)'
        \/ \E user \in LifecycleUsers, id \in 1..MaxContracts, status \in ContractStatus :
              UpdateStatus_Read(p, user, id, status)
        \/ \E failAt \in FailPoints :
              UpdateStatus_Tx(p, failAt) /\ Within(MaxPayments, MaxDeposit)'
        \/ \E user \in LifecycleUsers, id \in 1..MaxContracts,
              dto \in UpdateContractDtos(ContractStatus, {}) :
              Update_Read(p, user, id, dto)
        \/ \E failAt \in FailPoints : Update_Write(p, failAt)
        \/ \E user \in LifecycleUsers, id \in 1..MaxContracts : Remove_Read(p, user, id)
        \/ \E failAt \in FailPoints : Remove_Delete(p, failAt)
        \/ \E user \in LifecycleUsers, v \in Vehicles, status \in VehicleStatus :
              VehicleUpdateStatus_Read(p, user, v, status)
        \/ \E user \in LifecycleUsers, v \in Vehicles, status \in VehicleStatus :
              VehicleUpdate_Read(p, user, v, status)
        \/ \E failAt \in FailPoints : Vehicle_Write(p, failAt)

SpecLifecycle == Init /\ [][NextLifecycle]_vars

\* create with every deposit and every status its dto admits, one request at
\* a time, with the status changes and deposit top-ups that let a second
\* create pass its checks
NextCreate ==
    \E p \in {1} :
        \/ /\ MayCreate(MaxContracts)
           /\ \E dto \in AdminCreateDtos({1}, {1}, 0..MaxDeposit, {Nil} \cup ContractStatus) :
                 Create_ReadDriver(p, CompanyAdmin(1), dto)
        \/ Create_ReadVehicle(p)
        \/ \E failAt \in FailPoints :
              Create_Tx(p, failAt) /\ Within(MaxPayments, MaxDeposit)'
        \/ \E id \in 1..MaxContracts, status \in Terminal :
              UpdateStatus_Read(p, CompanyAdmin(1), id, status)
        \/ \E failAt \in FailPoints :
              UpdateStatus_Tx(p, failAt) /\ Within(MaxPayments, MaxDeposit)'
        \/ UpdateDeposit_Read(p, CompanyAdmin(1), 1, "add", 1)
        \/ \E failAt \in FailPoints :
              UpdateDeposit_Tx(p, failAt) /\ Within(MaxPayments, MaxDeposit)'

SpecCreate == Init /\ [][NextCreate]_vars

\* A contract of driver 1 on vehicle 1 is ACTIVE, as create leaves it
InitBilling ==
    /\ contracts = <<[driverId |-> 1, vehicleId |-> 1, companyId |-> 1,
                      dailyRate |-> 1, deposit |-> 0, status |-> "ACTIVE",
                      startDate |-> 1, endDate |-> NoDate]>>
    /\ vehicles = [v \in Vehicles |->
                    [status |-> IF v = 1 THEN "RENTED" ELSE "AVAILABLE", companyId |-> 1]]
    /\ drivers = [d \in Drivers |->
                    [deposit |-> InitDeposit, balance |-> 0, isActive |-> TRUE,
                     companyId |-> 1]]
    /\ payments = EmptyBag
    /\ reqs = [p \in Procs |-> Idle]
    /\ analytics = <<>>
    /\ now = InitNow

WithinBalance(maxPayments, maxDebt) ==
    /\ BagCardinality(payments) <= maxPayments
    /\ \A d \in Drivers : drivers[d].balance \in -maxDebt..maxDebt

\* A billing run (request 1) against manual balance adjustments of driver 1
\* (request 2)
NextBilling ==
    \/ \E p \in {1} :
        \/ \E fails \in BOOLEAN : Billing_Fetch(p, Cron, fails)
        \/ \E contract \in Todo(p), failAt \in 0..2, recordFails \in BOOLEAN :
              /\ Billing_Charge(p, contract, failAt, recordFails)
              /\ WithinBalance(MaxPayments, MaxDebt)'
        \/ Billing_Complete(p)
    \/ \E p \in {2} :
        \/ \E type \in {"PAYMENT", "FINE"} :
              UpdateBalance_Read(p, CompanyAdmin(1), 1, type, 1)
        \/ \E failAt \in 0..2 :
              UpdateBalance_Tx(p, failAt) /\ WithinBalance(MaxPayments, MaxDebt)'

SpecBilling == InitBilling /\ [][NextBilling]_vars

\* Two companies: contract 1 of driver 1 on vehicle 1 in company 1, contract 2
\* of driver 2 on vehicle 2 in company 2, both ACTIVE as create leaves them
InitRuns ==
    /\ contracts = <<[driverId |-> 1, vehicleId |-> 1, companyId |-> 1,
                      dailyRate |-> 1, deposit |-> 0, status |-> "ACTIVE",
                      startDate |-> 1, endDate |-> NoDate],
                     [driverId |-> 2, vehicleId |-> 2, companyId |-> 2,
                      dailyRate |-> 2, deposit |-> 0, status |-> "ACTIVE",
                      startDate |-> 1, endDate |-> NoDate]>>
    /\ vehicles = [v \in Vehicles |-> [status |-> "RENTED", companyId |-> v]]
    /\ drivers = [d \in Drivers |->
                    [deposit |-> InitDeposit, balance |-> 0, isActive |-> TRUE,
                     companyId |-> d]]
    /\ payments = EmptyBag
    /\ reqs = [p \in Procs |-> Idle]
    /\ analytics = <<>>
    /\ now = InitNow

\* Who starts a billing run: the scheduler, or the admin of company 1 by the
\* manual trigger
Triggers == {Cron, CompanyAdmin(1)}

\* Two billing runs, one after the other or at the same time, each hitting
\* storage failures at any of its writes
NextRuns ==
    \E p \in Procs :
        \/ /\ reqs[p] = Idle
           /\ \E user \in Triggers, fails \in BOOLEAN : Billing_Fetch(p, user, fails)
        \/ \E contract \in Todo(p), failAt \in 0..2, recordFails \in BOOLEAN :
              Billing_Charge(p, contract, failAt, recordFails)
        \/ Billing_Complete(p)

SpecRuns == InitRuns /\ [][NextRuns]_vars

\* The loop of a run goes on by itself: each of its awaits is answered, by a
\* result or by an error
RunGoesOn(p) ==
    \/ \E contract \in Todo(p), failAt \in 0..2, recordFails \in BOOLEAN :
          Billing_Charge(p, contract, failAt, recordFails)
    \/ Billing_Complete(p)

SpecRunsFair == SpecRuns /\ \A p \in Procs : WF_vars(RunGoesOn(p))

\* Contracts with and without a deposit, their completion, and the removal of
\* contracts, vehicles and drivers, one request at a time by the admin of
\* company 1
NextRemoval ==
    \E p \in {1} :
        \/ /\ MayCreate(MaxContracts)
           /\ \E dto \in AdminCreateDtos(Drivers, Vehicles, {0, 1}, {Nil}) :
                 Create_ReadDriver(p, CompanyAdmin(1), dto)
        \/ Create_ReadVehicle(p)
        \/ \E failAt \in FailPoints :
              Create_Tx(p, failAt) /\ Within(MaxPayments, MaxDeposit)'
        \/ \E id \in 1..MaxContracts, status \in Terminal :
              UpdateStatus_Read(p, CompanyAdmin(1), id, status)
        \/ \E failAt \in FailPoints :
              UpdateStatus_Tx(p, failAt) /\ Within(MaxPayments, MaxDeposit)'
        \/ \E id \in 1..MaxContracts : Remove_Read(p, CompanyAdmin(1), id)
        \/ \E failAt \in 0..1 : Remove_Delete(p, failAt)
        \/ \E v \in Vehicles : VehicleRemove_Read(p, CompanyAdmin(1), v)
        \/ \E failAt \in 0..1 : VehicleRemove_Delete(p, failAt)
        \/ \E d \in Drivers : DriverRemove_Read(p, CompanyAdmin(1), d)
        \/ DriverRemove_Count(p)
        \/ \E failAt \in 0..1 : DriverRemove_Delete(p, failAt)

SpecRemoval == Init /\ [][NextRemoval]_vars

\* A billing run (request 1) against the status changes and the removal of
\* the contract it has fetched (request 2)
NextRemoveRace ==
    \/ \E p \in {1} :
        \/ \E fails \in BOOLEAN : Billing_Fetch(p, Cron, fails)
        \/ \E contract \in Todo(p), failAt \in 0..2, recordFails \in BOOLEAN :
              /\ Billing_Charge(p, contract, failAt, recordFails)
              /\ WithinBalance(MaxPayments, MaxDebt)'
        \/ Billing_Complete(p)
    \/ \E p \in {2} :
        \/ \E status \in ContractStatus : UpdateStatus_Read(p, CompanyAdmin(1), 1, status)
        \/ \E failAt \in FailPoints : UpdateStatus_Tx(p, failAt)
        \/ Remove_Read(p, CompanyAdmin(1), 1)
        \/ \E failAt \in 0..1 : Remove_Delete(p, failAt)

SpecRemoveRace == InitBilling /\ [][NextRemoveRace]_vars

\* Two companies: driver 1 and vehicle 1 of company 1 are free; company 2 has
\* contract 1 of driver 2 on vehicle 2, ACTIVE and holding a deposit
InitTenants ==
    /\ contracts = <<[driverId |-> 2, vehicleId |-> 2, companyId |-> 2,
                      dailyRate |-> 1, deposit |-> 1, status |-> "ACTIVE",
                      startDate |-> 1, endDate |-> NoDate]>>
    /\ vehicles = [v \in Vehicles |->
                    [status |-> IF v = 2 THEN "RENTED" ELSE "AVAILABLE", companyId |-> v]]
    /\ drivers = [d \in Drivers |->
                    [deposit |-> InitDeposit, balance |-> 0, isActive |-> TRUE,
                     companyId |-> d]]
    /\ payments = SetToBag({[type |-> "DEPOSIT", amount |-> 1, driverId |-> 2,
                             contractId |-> 1, companyId |-> 2, error |-> FALSE]})
    /\ reqs = [p \in Procs |-> Idle]
    /\ analytics = <<>>
    /\ now = InitNow

\* The caller of every request of NextTenants: the admin of company 1
Caller == CompanyAdmin(1)

\* The operations of ContractService by the admin of company 1, on the
\* contracts, drivers and vehicles of either company, one request at a time
NextTenants ==
    \E p \in {1} :
        \/ /\ MayCreate(MaxContracts)
           /\ \E dto \in CreateDtos({0, 1}, {Nil}) : Create_ReadDriver(p, Caller, dto)
        \/ Create_ReadVehicle(p)
        \/ \E failAt \in FailPoints :
              Create_Tx(p, failAt) /\ Within(MaxPayments, MaxDeposit)'
        \/ \E id \in 1..MaxContracts, status \in ContractStatus :
              UpdateStatus_Read(p, Caller, id, status)
        \/ \E failAt \in FailPoints :
              UpdateStatus_Tx(p, failAt) /\ Within(MaxPayments, MaxDeposit)'
        \/ \E id \in 1..MaxContracts, dto \in UpdateContractDtos(ContractStatus, {0, 1}) :
              Update_Read(p, Caller, id, dto)
        \/ \E failAt \in 0..1 : Update_Write(p, failAt)
        \/ \E id \in 1..MaxContracts : Remove_Read(p, Caller, id)
        \/ \E failAt \in 0..1 : Remove_Delete(p, failAt)

SpecTenants == InitTenants /\ [][NextTenants]_vars

\* ------------------------------------------- AnalyticsService.saveMetric
MetricTypes == {"DAILY_REVENUE", "VEHICLE_UTILIZATION"}
\* entityId of a company-level metric
NullEntity == "null"
\* The ids of the vehicles and drivers that metrics are saved for
Entities == {"v1"}
Dates == {1}
MetricValues == {1, 2}

\* entityId || ''
EntityIdOrEmpty(entityId) == IF entityId = NullEntity THEN "" ELSE entityId

\* The unique selector of the upsert: companyId_metricType_date_entityId
MetricWhere(m) ==
    [companyId |-> m.companyId, metricType |-> m.metricType, date |-> m.date,
     entityId |-> EntityIdOrEmpty(m.entityId)]

\* The same selector with the entityId as it was passed
MetricWhereAsPassed(m) ==
    [companyId |-> m.companyId, metricType |-> m.metricType, date |-> m.date,
     entityId |-> m.entityId]

\* The values of a row in the columns of @@unique
MetricKey(row) ==
    [companyId |-> row.companyId, metricType |-> row.metricType, date |-> row.date,
     entityId |-> row.entityId]

\* The rows the selector finds: equality on every column, which no NULL meets
MetricFound(A, where) ==
    {i \in 1..Len(A) : A[i].entityId # NullEntity /\ MetricKey(A[i]) = where}

\* prisma.analytics.upsert: update the row the selector finds, else create
\* one; the unique index refuses no row whose entityId is NULL
Upsert(A, m) ==
    LET found == MetricFound(A, MetricWhere(m))
    IN  IF found # {}
        THEN [i \in 1..Len(A) |-> IF i \in found THEN [A[i] EXCEPT !.value = m.value]
                                                 ELSE A[i]]
        ELSE Append(A, [companyId |-> m.companyId, metricType |-> m.metricType,
                        date |-> m.date, entityId |-> m.entityId, value |-> m.value])

Metrics ==
    [companyId : Companies, metricType : MetricTypes, date : Dates,
     entityId : Entities \cup {NullEntity}, value : MetricValues]

\* saveMetric: one awaited upsert; it throws when the storage fails
SaveMetric(p, m, fails) ==
    /\ Resting(p)
    /\ analytics' = IF fails THEN analytics ELSE Upsert(analytics, m)
    /\ reqs' = [reqs EXCEPT ![p] =
            IF fails THEN Failed("saveMetric", "Storage") ELSE Ok("saveMetric")]
    /\ UNCHANGED <<contracts, vehicles, drivers, payments, now>>

\* The recomputations of the metrics, one after the other
NextAnalytics ==
    \E p \in {1}, m \in Metrics, fails \in BOOLEAN :
        /\ SaveMetric(p, m, fails)
        /\ Len(analytics') <= MaxMetricRows

SpecAnalytics == Init /\ [][NextAnalytics]_vars

\* Driver 1 of company 1 holds two ACTIVE contracts on vehicle 1, driver 2 of
\* company 2 one on vehicle 2
InitDebt ==
    /\ contracts = <<[driverId |-> 1, vehicleId |-> 1, companyId |-> 1,
                      dailyRate |-> 2, deposit |-> 0, status |-> "ACTIVE",
                      startDate |-> 1, endDate |-> NoDate],
                     [driverId |-> 1, vehicleId |-> 1, companyId |-> 1,
                      dailyRate |-> 1, deposit |-> 0, status |-> "ACTIVE",
                      startDate |-> 1, endDate |-> NoDate],
                     [driverId |-> 2, vehicleId |-> 2, companyId |-> 2,
                      dailyRate |-> 1, deposit |-> 0, status |-> "ACTIVE",
                      startDate |-> 1, endDate |-> NoDate]>>
    /\ vehicles = [v \in Vehicles |-> [status |-> "RENTED", companyId |-> v]]
    /\ drivers = [d \in Drivers |->
                    [deposit |-> InitDeposit, balance |-> 0, isActive |-> TRUE,
                     companyId |-> d]]
    /\ payments = EmptyBag
    /\ reqs = [p \in Procs |-> Idle]
    /\ analytics = <<>>
    /\ now = InitNow

\* The balances a driver is given
DebtBalances == -2..0

\* The debtor query between suspensions and re-activations of the contracts
\* and updates of the drivers
NextDebt ==
    \E p \in {1} :
        \/ \E id \in 1..3, status \in {"SUSPENDED", "ACTIVE"} :
              UpdateStatus_Read(p, SuperAdmin, id, status)
        \/ \E failAt \in 0..1 : UpdateStatus_Tx(p, failAt)
        \/ \E d \in Drivers, dto \in UpdateDriverDtos(DebtBalances) :
              DriverUpdate_Read(p, SuperAdmin, d, dto)
        \/ \E failAt \in 0..1 : DriverUpdate_Write(p, failAt)
        \/ \E user \in {SuperAdmin, CompanyAdmin(1)}, queryCompanyId \in {NoCompany, 2} :
              GetDriversInDebt(p, user, queryCompanyId)

SpecDebt == InitDebt /\ [][NextDebt]_vars

\* The balances of driver 1 and the daily rates of its two contracts, in
\* hundredths
DayBalances == {-45000, -30000, -110, -90, -21, -7}
DayRates == {10000, 30, 10, 1}
DayRatesOfSecond == {5000, 20}

\* Driver 1 owes money and holds contract 1, ACTIVE, and contract 2, ACTIVE
\* or SUSPENDED
InitDays ==
    /\ \E rate1 \in DayRates, rate2 \in DayRatesOfSecond,
          status2 \in {"ACTIVE", "SUSPENDED"} :
          contracts = <<[driverId |-> 1, vehicleId |-> 1, companyId |-> 1,
                         dailyRate |-> rate1, deposit |-> 0, status |-> "ACTIVE",
                         startDate |-> 1, endDate |-> NoDate],
                        [driverId |-> 1, vehicleId |-> 1, companyId |-> 1,
                         dailyRate |-> rate2, deposit |-> 0, status |-> status2,
                         startDate |-> 1, endDate |-> NoDate]>>
    /\ vehicles = [v \in Vehicles |->
                    [status |-> IF v = 1 THEN "RENTED" ELSE "AVAILABLE", companyId |-> 1]]
    /\ \E balance \in DayBalances :
          drivers = [d \in Drivers |->
                       [deposit |-> InitDeposit, balance |-> IF d = 1 THEN balance ELSE 0,
                        isActive |-> TRUE, companyId |-> 1]]
    /\ payments = EmptyBag
    /\ reqs = [p \in Procs |-> Idle]
    /\ analytics = <<>>
    /\ now = InitNow

\* The debtor query on each of these tables
NextDays == \E p \in Procs : GetDriversInDebt(p, SuperAdmin, NoCompany)

SpecDays == InitDays /\ [][NextDays]_vars

\* Suspensions and re-activations of contract 1 (request 1) against status
\* changes of its vehicle (request 2)
NextSuspend ==
    \/ \E p \in {1} :
        \/ \E status \in {"SUSPENDED", "ACTIVE"} :
              UpdateStatus_Read(p, CompanyAdmin(1), 1, status)
        \/ \E failAt \in 0..2 : UpdateStatus_Tx(p, failAt)
    \/ \E p \in {2} :
        \/ \E status \in VehicleStatus :
              VehicleUpdateStatus_Read(p, CompanyAdmin(1), 1, status)
        \/ \E failAt \in 0..1 : Vehicle_Write(p, failAt)

SpecSuspend == InitBilling /\ [][NextSuspend]_vars

\* One billing run (request 1) and, before it or after it, questions for the
\* stats of the day (request 2)
NextStats ==
    \/ \E p \in {1} :
        \/ /\ reqs[p] = Idle /\ Resting(2)
           /\ \E fails \in BOOLEAN : Billing_Fetch(p, Cron, fails)
        \/ \E contract \in Todo(p), failAt \in 0..2, recordFails \in BOOLEAN :
              Billing_Charge(p, contract, failAt, recordFails)
        \/ Billing_Complete(p)
    \/ \E p \in {2} :
        \/ /\ Resting(1)
           /\ \E user \in Users, queryCompanyId \in Companies \cup {NoCompany},
                 first \in {"findMany", "aggregate"} :
                 TodayStats_First(p, user, queryCompanyId, first)
        \/ TodayStats_Second(p)

SpecStats == InitRuns /\ [][NextStats]_vars

\* Time passes
Tick ==
    /\ now < MaxNow
    /\ now' = now + 1
    /\ UNCHANGED <<contracts, vehicles, drivers, payments, analytics, reqs>>

\* The DTOs of a contract of driver 1 on vehicle 1 with every start and end
DatedDtos ==
    [driverId : {1}, vehicleId : {1}, dailyRate : {1}, deposit : {0},
     startDate : 1..MaxNow, endDate : {NoDate} \cup 1..MaxNow, status : {Nil},
     companyId : {NoCompany}]

\* The admin of company 1 creates contracts (request 1) and billing runs
\* start (request 2) while time passes
NextStart ==
    \/ \E p \in {1} :
        \/ \E dto \in DatedDtos : Create_ReadDriver(p, CompanyAdmin(1), dto)
        \/ Create_ReadVehicle(p)
        \/ \E failAt \in 0..1 : Create_Tx(p, failAt)
    \/ \E p \in {2} :
        \/ \E fails \in BOOLEAN : Billing_Fetch(p, Cron, fails)
        \/ \E contract \in Todo(p), failAt \in 0..2, recordFails \in BOOLEAN :
              /\ Billing_Charge(p, contract, failAt, recordFails)
              /\ WithinBalance(MaxPayments, MaxDebt)'
        \/ Billing_Complete(p)
    \/ Tick

SpecStart == Init /\ [][NextStart]_vars

\* The DTOs of create that hold a deposit and pass the validation of the
\* dates; a company admin's DTO names no company (it is not read)
FutureDtos(user) ==
    {dto \in CreateDtos({1}, {Nil}) :
        /\ DatesValid(dto, InitNow)
        /\ user.role # "SUPER_ADMIN" => dto.companyId = NoCompany}

\* Two companies and every caller of create: contracts are created, and
\* ended by a super admin (request 1), against billing runs and the removal
\* of drivers and vehicles, which deletes their contracts (request 2)
NextLinks ==
    \/ \E p \in {1} :
        \/ /\ MayCreate(MaxContracts)
           /\ \E user \in Users :
                 \E dto \in FutureDtos(user) : Create_ReadDriver(p, user, dto)
        \/ Create_ReadVehicle(p)
        \/ Create_Tx(p, 0) /\ Within(MaxPayments, MaxDeposit)'
        \/ \E id \in 1..MaxContracts, status \in Terminal :
              UpdateStatus_Read(p, SuperAdmin, id, status)
        \/ UpdateStatus_Tx(p, 0) /\ Within(MaxPayments, MaxDeposit)'
    \/ \E p \in {2} :
        \/ Billing_Fetch(p, Cron, FALSE)
        \/ \E contract \in Todo(p), failAt \in 0..1, recordFails \in BOOLEAN :
              /\ Billing_Charge(p, contract, failAt, recordFails)
              /\ WithinBalance(MaxPayments, MaxDebt)'
        \/ Billing_Complete(p)
        \/ \E v \in Vehicles : VehicleRemove_Read(p, SuperAdmin, v)
        \/ VehicleRemove_Delete(p, 0)
        \/ \E d \in Drivers : DriverRemove_Read(p, SuperAdmin, d)
        \/ DriverRemove_Count(p)
        \/ DriverRemove_Delete(p, 0)

SpecLinks == InitTenants /\ [][NextLinks]_vars

\* ------------------------------------------------------------------ claims
\* C1: every driver has at most one contract whose status is ACTIVE.
C1_OneActiveContractPerDriver ==
    \A d \in Drivers : Cardinality(ActiveOfDriver(DB, d)) <= 1

\* C2: every vehicle has at most one contract whose status is ACTIVE.
C2_OneActiveContractPerVehicle ==
    \A v \in Vehicles : Cardinality(ActiveOfVehicle(DB, v)) <= 1

\* C3: a vehicle's status is RENTED if and only if exactly one contract of
\* the vehicle has status ACTIVE.
C3_RentedIffOneActiveContract ==
    \A v \in Vehicles :
        vehicles[v].status = "RENTED" <=> Cardinality(ActiveOfVehicle(DB, v)) = 1

\* The request p holds for contract c, if any
RequestFor(p, c) ==
    /\ reqs[p].op \in {"updateStatus", "update"}
    /\ reqs[p].pc # "ok" /\ reqs[p].pc # "failed"
    /\ reqs[p].id = c

\* C6: a contract whose status is COMPLETED or TERMINATED keeps that status
\* in every later step (it may only be deleted), and no updateStatus or
\* update request for it writes anything.
C6_TerminalStatusNeverLeft ==
    [][\A c \in 1..Len(contracts) :
          contracts[c].status \in Terminal =>
              /\ contracts'[c].status \in {contracts[c].status, "DELETED"}
              /\ \A p \in Procs :
                    RequestFor(p, c) /\ reqs'[p] # reqs[p] => UNCHANGED tables]_vars

\* The number of entries of ledger B of the given type linked to contract c
EntriesOf(B, type, c) ==
    LET rows == {r \in BagToSet(B) : r.type = type /\ r.contractId = c}
    IN  BagCardinality([r \in rows |-> B[r]])

\* The step is the end of a create request of p
CreateEnds(p) ==
    reqs[p].op = "create" /\ ~Resting(p) /\ Resting(p)'

\* C4: a create that fails, at a precondition or in its write phase, leaves
\* contracts, vehicles, drivers and payments as they were; a create that
\* succeeds makes all of its writes in the one step in which it ends, so no
\* state holds only some of them.
C4_CreateAllOrNothing ==
    [][\A p \in Procs :
          /\ reqs'[p] # reqs[p] /\ reqs'[p].op = "create" /\ reqs'[p] # Ok("create")
                => UNCHANGED tables
          /\ CreateEnds(p) /\ reqs'[p] = Ok("create") =>
                LET r == reqs[p]
                    id == Len(contracts) + 1
                IN  /\ Len(contracts') = id
                    /\ vehicles'[r.dto.vehicleId].status = "RENTED"
                    /\ r.dto.deposit > 0 =>
                          /\ drivers'[r.dto.driverId].deposit
                                = r.driverDeposit - r.dto.deposit
                          /\ EntriesOf(payments', "DEPOSIT", id) = 1]_vars

\* A create has failed in its write phase, after a contract was created
C4_Witness ==
    \E p \in Procs :
        /\ reqs[p] = Failed("create", "Storage")
        /\ Len(contracts) > 0

\* C5: a create that succeeds with deposit d for a driver whose deposit is
\* D >= d stores a contract of status ACTIVE, sets the vehicle RENTED, sets
\* the driver's deposit to D - d, and adds exactly one DEPOSIT entry of
\* amount d for the contract when d > 0 and no entry when d = 0.
C5_SuccessfulCreate ==
    [][\A p \in Procs :
          LET dto == reqs[p].dto
              D == drivers[dto.driverId].deposit
              id == Len(contracts) + 1
              entry == [type |-> "DEPOSIT", amount |-> dto.deposit,
                        driverId |-> dto.driverId, contractId |-> id,
                        companyId |-> reqs[p].targetCompanyId, error |-> FALSE]
          IN  CreateEnds(p) /\ reqs'[p] = Ok("create") /\ D >= dto.deposit =>
                  /\ Len(contracts') = id
                  /\ contracts'[id].status = "ACTIVE"
                  /\ contracts'[id].deposit = dto.deposit
                  /\ vehicles'[dto.vehicleId].status = "RENTED"
                  /\ drivers'[dto.driverId].deposit = D - dto.deposit
                  /\ payments' = IF dto.deposit > 0
                                 THEN payments (+) SetToBag({entry})
                                 ELSE payments]_vars

\* C7: a step that takes a contract to COMPLETED or TERMINATED sets its
\* vehicle AVAILABLE and, when the contract holds a deposit, adds exactly
\* that deposit to the driver's deposit; and a contract that is COMPLETED or
\* TERMINATED and holds a deposit has exactly one REFUND entry, of that
\* amount.
C7_TerminalTransitionRefunds ==
    [][\A c \in 1..Len(contracts) :
          LET row == contracts[c]
              refund == [type |-> "REFUND", amount |-> row.deposit,
                         driverId |-> row.driverId, contractId |-> c,
                         companyId |-> row.companyId, error |-> FALSE]
          IN  /\ row.status \notin Terminal /\ contracts'[c].status \in Terminal =>
                    /\ vehicles'[row.vehicleId].status = "AVAILABLE"
                    /\ row.deposit > 0 =>
                          drivers'[row.driverId].deposit
                              = drivers[row.driverId].deposit + row.deposit
              /\ contracts'[c].status \in Terminal /\ row.deposit > 0 =>
                    /\ EntriesOf(payments', "REFUND", c) = 1
                    /\ CopiesIn(refund, payments') = 1]_vars

\* What a ledger entry says was done to the driver's deposit: a hold, a
\* return, a top-up or a deduction (the last two carry no contract)
DepositDelta(row) ==
    IF row.type = "DEPOSIT" THEN -row.amount
    ELSE IF row.type = "REFUND" THEN row.amount
    ELSE IF row.type = "PAYMENT" /\ row.contractId = NoContract THEN row.amount
    ELSE IF row.type = "FINE" /\ row.contractId = NoContract THEN -row.amount
    ELSE 0

\* What a ledger entry says was done to the driver's balance
BalanceDelta(row) ==
    IF row.error THEN 0 ELSE BalanceChange(row.type, row.amount)

RECURSIVE DepositDeltas(_, _)
DepositDeltas(rows, d) ==
    IF rows = {} THEN 0
    ELSE LET row == CHOOSE r \in rows : TRUE
         IN  (IF row.driverId = d THEN payments[row] * DepositDelta(row) ELSE 0)
                 + DepositDeltas(rows \ {row}, d)

RECURSIVE BalanceDeltas(_, _)
BalanceDeltas(rows, d) ==
    IF rows = {} THEN 0
    ELSE LET row == CHOOSE r \in rows : TRUE
         IN  (IF row.driverId = d THEN payments[row] * BalanceDelta(row) ELSE 0)
                 + BalanceDeltas(rows \ {row}, d)

\* C8: once every request has ended, each driver's deposit is the initial
\* deposit plus the deltas of the holds, returns, top-ups and deductions
\* that committed (each committed one has its ledger entry).
C8_NoLostDepositUpdate ==
    (\A p \in Procs : Resting(p)) =>
        \A d \in Drivers :
            drivers[d].deposit = InitDeposit + DepositDeltas(BagToSet(payments), d)

\* C9: once every request has ended, each driver's balance is the initial
\* balance minus the daily rates charged plus the manual adjustments that
\* committed.
C9_NoLostBalanceUpdate ==
    (\A p \in Procs : Resting(p)) =>
        \A d \in Drivers :
            drivers[d].balance = BalanceDeltas(BagToSet(payments), d)

\* C10: no driver's deposit is negative.
C10_DepositNeverNegative ==
    \A d \in Drivers : drivers[d].deposit >= 0

\* Two creates have raced for the one deposit of driver 1: both contracts
\* hold it and nothing was topped up
C10_Witness ==
    /\ Cardinality({c \in 1..Len(contracts) :
            contracts[c].driverId = 1 /\ contracts[c].deposit = InitDeposit}) = 2
    /\ \A r \in BagToSet(payments) : r.type = "DEPOSIT"
    /\ drivers[1].deposit = 0

\* The sum of f over the set S
RECURSIVE Sum(_, _)
Sum(f, S) ==
    IF S = {} THEN 0
    ELSE LET x == CHOOSE y \in S : TRUE
         IN  f[x] + Sum(f, S \ {x})

\* The DAILY_RENT entries of the ledger, error-tagged or not
DailyRentRows(error) ==
    {r \in BagToSet(payments) : r.type = "DAILY_RENT" /\ r.error = error}

\* How many entries of the ledger are among rows
CountRows(rows) == Sum([r \in rows |-> payments[r]], rows)

\* The billing run of p has returned its stats
RunCompleted(p) == reqs[p].op = "billing" /\ reqs[p].pc = "ok"

AllResting == \A p \in Procs : Resting(p)

\* C11: once the runs have ended, the ledger holds as many DAILY_RENT entries,
\* error-tagged ones included, as the completed runs fetched contracts.
C11_OneEntryPerFetchedContract ==
    AllResting =>
        CountRows(DailyRentRows(TRUE) \cup DailyRentRows(FALSE))
            = Sum([p \in Procs |-> IF RunCompleted(p) THEN reqs[p].fetched ELSE 0], Procs)

\* The amounts of the non-error DAILY_RENT entries of driver d, summed
ChargedTo(d) ==
    LET rows == {r \in DailyRentRows(FALSE) : r.driverId = d}
    IN  Sum([r \in rows |-> payments[r] * r.amount], rows)

\* C12: in every state, what each driver's balance has gone down by (the
\* balance starts at 0) is the sum of the amounts of the driver's non-error
\* DAILY_RENT entries; a failed charge, which adds no such entry, leaves the
\* balance as it was.
C12_ChargeAtomicPerContract ==
    \A d \in Drivers : 0 - drivers[d].balance = ChargedTo(d)

\* A charge of driver 2 failed and was recorded, the balance is untouched,
\* and driver 1 was charged
C12_Witness ==
    /\ \E r \in DailyRentRows(TRUE) : r.driverId = 2
    /\ drivers[2].balance = 0
    /\ drivers[1].balance < 0

\* The ledger entry of a successful charge of the fetched contract
ChargeEntry(contract) ==
    [type |-> "DAILY_RENT", amount |-> contract.dailyRate,
     driverId |-> contract.driverId, contractId |-> contract.id,
     companyId |-> contract.companyId, error |-> FALSE]

\* C13: a run that is in its loop never aborts: each of its steps either
\* takes one fetched contract off the contracts still to charge, charging it
\* once (one debit of its dailyRate, one entry) or counting its failure with
\* no debit, whatever failed before, or ends the run when every fetched
\* contract has been taken.
C13_FailureIsolation ==
    [][\A p \in Procs :
          reqs[p].op = "billing" /\ reqs[p].pc = "loop" /\ reqs'[p] # reqs[p] =>
              /\ reqs'[p].pc \in {"loop", "ok"}
              /\ reqs'[p].pc = "ok" =>
                    reqs[p].todo = {} /\ reqs'[p].stats.total = reqs[p].fetched
              /\ reqs'[p].pc = "loop" =>
                    \E c \in reqs[p].todo :
                        /\ reqs'[p].todo = reqs[p].todo \ {c}
                        /\ \/ /\ reqs'[p].stats.successful = reqs[p].stats.successful + 1
                              /\ reqs'[p].stats.failed = reqs[p].stats.failed
                              /\ drivers'[c.driverId].balance
                                    = drivers[c.driverId].balance - c.dailyRate
                              /\ payments' = payments (+) SetToBag({ChargeEntry(c)})
                           \/ /\ reqs'[p].stats.failed = reqs[p].stats.failed + 1
                              /\ reqs'[p].stats.successful = reqs[p].stats.successful
                              /\ drivers' = drivers]_vars

\* A run has ended in which one charge failed and the other went through
C13_Witness ==
    \E p \in Procs :
        /\ RunCompleted(p)
        /\ reqs[p].stats.failed = 1
        /\ reqs[p].stats.successful = 1

\* What the completed runs returned of one of their stats, summed
Returned(stat) ==
    Sum([p \in Procs |-> IF RunCompleted(p) THEN reqs[p].stats[stat] ELSE 0], Procs)

\* The stats a completed run returned agree with each other
StatsConsistent(p) ==
    /\ reqs[p].stats.total = reqs[p].fetched
    /\ reqs[p].stats.successful + reqs[p].stats.failed = reqs[p].stats.total
    /\ reqs[p].failedEvents = reqs[p].stats.failed

\* What the ledger holds once the runs have ended agrees with their stats
StatsMatchLedger ==
    /\ Returned("totalAmount") = ChargedTo(1) + ChargedTo(2)
    /\ Returned("successful") = CountRows(DailyRentRows(FALSE))

\* C14: the stats of a completed run have total = the number of fetched
\* contracts, successful + failed = total and as many PaymentFailedEvents
\* emitted as failed; once the runs have ended, the totalAmounts add up to
\* the amounts of the non-error DAILY_RENT entries, and the error-tagged
\* entries are as many as the runs counted failed.
C14_StatsOfRun ==
    /\ \A p \in Procs : RunCompleted(p) => StatsConsistent(p)
    /\ AllResting =>
          /\ StatsMatchLedger
          /\ CountRows(DailyRentRows(TRUE)) = Returned("failed")

\* Both runs fetched both contracts and no charge of theirs failed
BothRunsCharged ==
    \A p \in Procs :
        RunCompleted(p) /\ reqs[p].fetched = Len(contracts) /\ reqs[p].stats.failed = 0

\* C15: when two runs, one after the other or at the same time, have both
\* charged the same ACTIVE contracts, each contract has two DAILY_RENT
\* entries and its driver's balance (0 at the start) is down by twice the
\* dailyRate.
C15_BillingNotIdempotent ==
    BothRunsCharged =>
        \A c \in 1..Len(contracts) :
            /\ CopiesIn(ChargeEntry([id |-> c, dailyRate |-> contracts[c].dailyRate,
                                     driverId |-> contracts[c].driverId,
                                     companyId |-> contracts[c].companyId]),
                        payments) = Cardinality(Procs)
            /\ drivers[contracts[c].driverId].balance
                  = 0 - Cardinality(Procs) * contracts[c].dailyRate

\* Two runs have ended that both charged both contracts
C15_Witness ==
    /\ BothRunsCharged
    /\ BagCardinality(payments) = 4

\* C19: a step of a billing run started by a caller scoped to a company
\* leaves the drivers of every other company as they were and adds no ledger
\* entry of another company.
C19_ManualBillingTenantScoped ==
    [][\A p \in Procs :
          LET C == reqs[p].trigger.companyId
          IN  Todo(p) # {} /\ reqs'[p] # reqs[p] /\ C # NoCompany =>
                  /\ \A d \in Drivers :
                        drivers[d].companyId # C => drivers'[d] = drivers[d]
                  /\ \A r \in BagToSet(payments') :
                        r.companyId # C => CopiesIn(r, payments') = CopiesIn(r, payments)]_vars

\* The step deletes contract c
ContractDeleted(c) ==
    contracts[c].status # "DELETED" /\ contracts'[c].status = "DELETED"

\* The step takes the contract reference off ledger entry r
ReferenceNulled(r) ==
    LET nulled == [r EXCEPT !.contractId = NoContract]
    IN  /\ r.contractId # NoContract
        /\ CopiesIn(r, payments') < CopiesIn(r, payments)
        /\ CopiesIn(nulled, payments') > CopiesIn(nulled, payments)

\* C16: a step of ContractService.remove deletes the contract only when the
\* contract is not ACTIVE and no ledger entry references it, and changes
\* nothing when the request fails; and no step takes the contract reference
\* off a ledger entry.
C16_RemoveKeepsLedgerReferences ==
    [][/\ \A p \in Procs :
             reqs[p].op = "remove" /\ ~Resting(p) /\ reqs'[p] # reqs[p] =>
                 /\ reqs'[p] # Ok("remove") => UNCHANGED tables
                 /\ ContractDeleted(reqs[p].id) =>
                       /\ contracts[reqs[p].id].status # "ACTIVE"
                       /\ PaymentsOfContract(DB, reqs[p].id) = {}
       /\ \A r \in BagToSet(payments) : ~ReferenceNulled(r)]_vars

\* C17: every ledger entry that exists is still there, with the same fields,
\* after every step.
C17_LedgerAppendOnly ==
    [][\A r \in BagToSet(payments) :
          CopiesIn(r, payments') >= CopiesIn(r, payments)]_vars

\* The rows of another company than C are, after the step, what they were,
\* and the step adds none
OtherCompaniesUntouched(C) ==
    /\ \A c \in 1..Len(contracts) :
          contracts[c].companyId # C => contracts'[c] = contracts[c]
    /\ \A c \in (Len(contracts) + 1)..Len(contracts') :
          /\ contracts'[c].companyId = C
          /\ drivers[contracts'[c].driverId].companyId = C
          /\ vehicles[contracts'[c].vehicleId].companyId = C
    /\ \A v \in Vehicles : vehicles[v].companyId # C => vehicles'[v] = vehicles[v]
    /\ \A d \in Drivers : drivers[d].companyId # C => drivers'[d] = drivers[d]
    /\ \A r \in BagToSet(payments) \cup BagToSet(payments') :
          r.companyId # C => CopiesIn(r, payments') = CopiesIn(r, payments)

RowsOfKey(A, m) == {i \in 1..Len(A) : MetricKey(A[i]) = MetricWhereAsPassed(m)}

\* A save of metric m that succeeds
Saves(m) == \E p \in Procs : SaveMetric(p, m, FALSE)

\* C20: when a metric is saved for a key that a row holds already with
\* another value, company-level keys of a null entityId included, the table
\* holds afterwards exactly one row of that key, and it holds the later value.
C20_UpsertOneRowPerKey ==
    [][\A m \in Metrics :
          (/\ Saves(m)
           /\ \E i \in RowsOfKey(analytics, m) : analytics[i].value # m.value)
          => \E i \in RowsOfKey(analytics', m) :
                /\ RowsOfKey(analytics', m) = {i}
                /\ analytics'[i].value = m.value]_vars

\* The step is the return of getDriversInDebt to p
DebtorsReturn(p) == reqs'[p].op = "getDriversInDebt" /\ reqs'[p] # reqs[p]

\* The drivers in the scope of a query: all of them when it names no company
InScope(d, companyId) == companyId = NoCompany \/ drivers[d].companyId = companyId

\* The list holds each driver once, in ascending order of balance
SortedOnce(result) ==
    \A i, j \in DOMAIN result :
        /\ i # j => result[i].driverId # result[j].driverId
        /\ i < j => ~DoubleLess(result[j].balance, result[i].balance)

\* C21: the list getDriversInDebt returns holds exactly the drivers in scope
\* with a negative balance and at least one ACTIVE contract, each once, in
\* ascending order of balance.
C21_DebtorsExactAndSorted ==
    [][\A p \in Procs : DebtorsReturn(p) =>
          /\ {reqs'[p].result[i].driverId : i \in DOMAIN reqs'[p].result}
                = {d \in Drivers : /\ InScope(d, reqs'[p].companyId)
                                   /\ drivers[d].balance < 0
                                   /\ ActiveOfDriver(DB, d) # {}}
          /\ SortedOnce(reqs'[p].result)]_vars

\* C21, amended: the list getDriversInDebt returns holds exactly the drivers
\* in scope that are active (isActive), have a negative balance and at least
\* one ACTIVE contract, each once, in ascending order of balance.
C21_ActiveDebtorsExactAndSorted ==
    [][\A p \in Procs : DebtorsReturn(p) =>
          /\ {reqs'[p].result[i].driverId : i \in DOMAIN reqs'[p].result}
                = {d \in Drivers : /\ InScope(d, reqs'[p].companyId)
                                   /\ drivers[d].isActive
                                   /\ drivers[d].balance < 0
                                   /\ ActiveOfDriver(DB, d) # {}}
          /\ SortedOnce(reqs'[p].result)]_vars

\* A list was returned that holds driver 2 before driver 1, the more indebted
\* first
C21_Witness ==
    \E p \in Procs :
        /\ reqs[p].op = "getDriversInDebt"
        /\ Len(reqs[p].result) = 2
        /\ reqs[p].result[1].driverId = 2
        /\ DoubleLess(reqs[p].result[1].balance, reqs[p].result[2].balance)

\* The sum of the daily rates of the ACTIVE contracts of driver d
RateOfDriver(d) == Sum([c \in 1..Len(contracts) |-> contracts[c].dailyRate],
                       ActiveOfDriver(DB, d))

\* The least number of days n with n * rate >= debt
CeilOfQuotient(debt, rate) == (debt + rate - 1) \div rate

\* C22: in every row getDriversInDebt returns, debtAmount is |balance|,
\* dailyRate is the sum of the daily rates of the driver's ACTIVE contracts,
\* and daysInDebt is ceil(debtAmount / dailyRate) when that sum is above
\* zero and 0 otherwise.
C22_DebtFigures ==
    [][\A p \in Procs : DebtorsReturn(p) =>
          \A i \in DOMAIN reqs'[p].result :
              LET d == reqs'[p].result[i].driverId
              IN  /\ reqs'[p].result[i].debtAmount = ToNumber(Abs(drivers[d].balance))
                  /\ reqs'[p].result[i].dailyRate = ToNumber(RateOfDriver(d))
                  /\ reqs'[p].result[i].daysInDebt =
                        IF RateOfDriver(d) > 0
                        THEN CeilOfQuotient(Abs(drivers[d].balance), RateOfDriver(d))
                        ELSE 0]_vars

\* The step is the commit of an updateStatus of p to the given status
StatusCommitted(p, status) ==
    /\ reqs[p].op = "updateStatus" /\ reqs[p].pc = "tx"
    /\ reqs[p].status = status
    /\ reqs'[p] = Ok("updateStatus")

\* C23: an updateStatus to SUSPENDED changes the contract's status and
\* nothing else: the vehicles, the drivers and the ledger are after its commit
\* what they were before it, also when the vehicle's status was changed
\* between its read and its commit.
C23_SuspendChangesOnlyContract ==
    [][\A p \in Procs : StatusCommitted(p, "SUSPENDED") =>
          /\ vehicles' = vehicles
          /\ drivers' = drivers
          /\ payments' = payments
          /\ contracts' = [contracts EXCEPT ![reqs[p].id].status = "SUSPENDED"]]_vars

\* C24: an updateStatus to ACTIVE succeeds only on a contract that is
\* SUSPENDED, and leaves the contract's vehicle RENTED.
C24_ActivateOnlyFromSuspended ==
    [][\A p \in Procs : StatusCommitted(p, "ACTIVE") =>
          /\ contracts[reqs[p].id].status = "SUSPENDED"
          /\ vehicles'[contracts[reqs[p].id].vehicleId].status = "RENTED"]_vars

\* The run of p has fetched its contracts and is in its loop
RunInLoop(p) == reqs[p].op = "billing" /\ reqs[p].pc = "loop"

StatsShape == {"total", "successful", "failed", "totalAmount"}

\* C25: a billing run whose fetch succeeded ends; it has then processed each
\* fetched contract once and emitted one billing.daily.completed event that
\* carries the stats it returns; the stats of a manual and of a scheduled run
\* have the same fields.
C25_RunEndsWithOneCompletedEvent ==
    /\ \A p \in Procs : RunInLoop(p) ~> RunCompleted(p)
    /\ [](\A p \in Procs : RunCompleted(p) =>
            /\ reqs[p].stats.total = reqs[p].fetched
            /\ reqs[p].completedEvents = <<reqs[p].stats>>
            /\ DOMAIN reqs[p].stats = StatsShape)
    /\ [][\A p \in Procs : \A contract \in Todo(p) :
            (RunInLoop(p)' /\ contract \notin Todo(p)')
                => reqs'[p].stats.total = reqs[p].stats.total + 1]_vars

\* A scheduled and a manual run have both ended, each with its own stats
C25_Witness ==
    /\ \A p \in Procs : RunCompleted(p) /\ reqs[p].fetched = 2
    /\ reqs[1].trigger = Cron /\ reqs[2].trigger = CompanyAdmin(1)
    /\ reqs[1].stats # reqs[2].stats

\* The step is the commit of the debit of a fetched contract by the run of p
Debits(p, contract) ==
    /\ contract \in Todo(p)
    /\ RunInLoop(p)' /\ contract \notin Todo(p)'
    /\ reqs'[p].stats.successful = reqs[p].stats.successful + 1

\* C26: a billing run debits a driver for a contract only if the contract
\* exists and is ACTIVE when the debit commits.
C26_DebitOnlyActiveContracts ==
    [][\A p \in Procs : \A contract \in Todo(p) :
          Debits(p, contract) =>
              /\ ContractExists(DB, contract.id)
              /\ contracts[contract.id].status = "ACTIVE"]_vars

\* The contracts of driver d in table C that hold their deposit: those that
\* are neither COMPLETED nor TERMINATED
HoldingOf(C, d) ==
    {c \in 1..Len(C) : C[c] # Deleted /\ C[c].driverId = d /\ C[c].status \notin Terminal}

\* The escrow of driver d: the free deposit and the deposits its contracts hold
Escrow(C, D, d) == D[d].deposit + Sum([c \in 1..Len(C) |-> C[c].deposit], HoldingOf(C, d))

\* C27: no step of ContractService.create, update, updateStatus or remove
\* changes, for any driver, the sum of the driver's deposit and of the
\* deposits of the driver's contracts that are neither COMPLETED nor
\* TERMINATED.
C27_DepositConservation ==
    [][\A d \in Drivers : Escrow(contracts', drivers', d) = Escrow(contracts, drivers, d)]_vars

\* The step is the return of getTodayBillingStats to p, asked for every
\* company
TodayStatsReturn(p) ==
    /\ reqs[p].op = "getTodayBillingStats" /\ reqs[p].pc = "second"
    /\ reqs[p].companyId = NoCompany
    /\ reqs'[p].pc = "ok"

\* C28: when the DAILY_RENT entries of the day are those of one billing run,
\* getTodayBillingStats returns the total, successful, failed and totalAmount
\* that the run returned.
C28_TodayStatsMatchRun ==
    [][\A p, run \in Procs :
          TodayStatsReturn(p) /\ RunCompleted(run) =>
              reqs'[p].result = reqs[run].stats]_vars

\* C29: a billing run debits a contract only if its startDate is not later
\* than the time of the debit: a contract that starts in the future is not
\* debited before that date.
C29_NoDebitBeforeStart ==
    [][\A p \in Procs : \A contract \in Todo(p) :
          Debits(p, contract) /\ ContractExists(DB, contract.id) =>
              contracts[contract.id].startDate <= now]_vars

\* The contracts in the table
Existing == {c \in 1..Len(contracts) : ContractExists(DB, c)}

====
